---------------------------- MODULE Spec2Model ----------------------------
(***************************************************************************)
(* Ticket lifecycle of the ticketee bot (src/bot.py): ticket creation,     *)
(* mark-as-solved, confirm-close, priority change and the administrative   *)
(* reconcile pass, run as coroutines of one asyncio event loop over one    *)
(* sqlite database and one external chat platform.                         *)
(*                                                                         *)
(* A coroutine runs without interruption between two awaits, so every      *)
(* action below is the code between two suspension points of a handler.    *)
(* An awaited external call answers with an outcome chosen by the          *)
(* environment.                                                            *)
(*                                                                         *)
(* The web dashboard (src/dashboard.py) is a Flask application over the    *)
(* same database: one action per request of one browser session.           *)
(***************************************************************************)
EXTENDS Integers, Sequences, FiniteSets, TLC

(* ------------------------------ bounds -------------------------------- *)
DashMaxRequests == 4
QueueMaxCreates == 2
TurnsMaxCreates == 3
TurnsMaxOps == 1
TurnsMaxTicks == 1
PairMaxOps == 2
LogMaxOps == 2
LogMaxMessages == 1
ReserveMaxCreates == 1
ReserveMaxOps == 1
ShutMaxOps == 2
HangMaxCreates == 2
AgainMaxCreates == 2
AgainMaxOps == 1
AgainMaxTicks == 1
MaxCreates == 1
MaxOps == 1
MaxTicks == 1
LifeMaxOps == 3
CreateMaxCreates == 2
CreateMaxTicks == 1
SeqMaxCreates == 1
SeqMaxOps == 3

(* ------------------------- program constants -------------------------- *)
OPEN_TICKET_GATE_SECONDS == 5
TICKET_OPEN_COOLDOWN_SECONDS == 60
OPEN_TICKETS_PER_USER_LIMIT == 1
SlugMaxLen == 50
NULL == 0

Procs == {1, 2}
Guilds == {1, 2}
Users == {1, 2, 3}
Categories == {1, 2}
TickSteps == {4, 57}
Priorities == {"Low", "Normal", "High", "Urgent"}

(* Guild standing of the members: user 2 holds the configured staff role,  *)
(* user 3 has manage_guild; user 1 is a plain member.                      *)
is_admin(u) == u = 3
is_staff(u) == u = 2

(* ---------------------------- strings --------------------------------- *)
(* A string is a sequence of characters.  The glyph literals of the source *)
(* file are the character sequences below (each entry is one character,    *)
(* written as its code point).                                             *)
GlyphLow == <<"xE2", "x161", "xAA">>
GlyphNormal == <<"xF0", "x178", "x178", "xA1">>
GlyphHigh == <<"xF0", "x178", "x178", "xA0">>
GlyphUrgent == <<"xF0", "x178", "x201D", "xB4">>
GlyphSolved == <<"xF0", "x178", "x178", "xA2">>
KnownGlyphs == {GlyphLow, GlyphNormal, GlyphHigh, GlyphUrgent, GlyphSolved}

casefold(s) ==
    CASE s = "Low" -> "low"
      [] s = "Normal" -> "normal"
      [] s = "High" -> "high"
      [] s = "Urgent" -> "urgent"
      [] OTHER -> s

priority_emoji(priority) ==
    LET p == casefold(priority)
    IN  IF p = "low" THEN GlyphLow
        ELSE IF p = "high" THEN GlyphHigh
        ELSE IF p = "urgent" THEN GlyphUrgent
        ELSE GlyphNormal

(* name[:1] in (glyphs) and name.startswith(name[:1] + "-"): then the part *)
(* after the first "-", else the name itself.                              *)
RECURSIVE AfterFirstDash(_)
AfterFirstDash(s) ==
    IF s = <<>> THEN <<>>
    ELSE IF Head(s) = "-" THEN Tail(s)
    ELSE AfterFirstDash(Tail(s))

StartsWith(s, pre) ==
    Len(s) >= Len(pre) /\ SubSeq(s, 1, Len(pre)) = pre

HasGlyphPrefix(name) ==
    LET first == SubSeq(name, 1, IF Len(name) >= 1 THEN 1 ELSE 0)
    IN  first \in KnownGlyphs /\ StartsWith(name, first \o <<"-">>)

StripGlyph(name) ==
    IF HasGlyphPrefix(name) THEN AfterFirstDash(name) ELSE name

SolvedName(name) == GlyphSolved \o <<"-">> \o StripGlyph(name)
PriorityName(name, pr) == priority_emoji(pr) \o <<"-">> \o StripGlyph(name)

TopicPriority(pr) == <<"Priority:", priority_emoji(pr), pr>>
TopicPending == <<"Status:", GlyphSolved, "Solved (pending staff confirmation)">>
TopicClosed == <<"Status:", GlyphSolved, "Solved | Closed">>

(* slugify_username: lower-case, every character outside [a-z0-9-] becomes *)
(* "-", runs of "-" collapse, leading and trailing "-" go, at most 50      *)
(* characters, "user" when nothing is left.                                *)
SlugChars == {"a", "b", "l", "o", "1", "-"}
LowerChar(c) ==
    CASE c = "A" -> "a"
      [] c = "B" -> "b"
      [] OTHER -> c

RECURSIVE SlugMap(_)
SlugMap(s) ==
    IF s = <<>> THEN <<>>
    ELSE LET c == LowerChar(Head(s))
         IN  <<IF c \in SlugChars THEN c ELSE "-">> \o SlugMap(Tail(s))

RECURSIVE CollapseDashes(_)
CollapseDashes(s) ==
    IF Len(s) < 2 THEN s
    ELSE IF s[1] = "-" /\ s[2] = "-" THEN CollapseDashes(Tail(s))
    ELSE <<s[1]>> \o CollapseDashes(Tail(s))

RECURSIVE StripLeft(_)
StripLeft(s) ==
    IF s # <<>> /\ Head(s) = "-" THEN StripLeft(Tail(s)) ELSE s

RECURSIVE StripRight(_)
StripRight(s) ==
    IF s # <<>> /\ s[Len(s)] = "-" THEN StripRight(SubSeq(s, 1, Len(s) - 1)) ELSE s

slugify_username(name) ==
    LET s == StripRight(StripLeft(CollapseDashes(SlugMap(name))))
    IN  IF s = <<>> THEN <<"u", "s", "e", "r">>
        ELSE SubSeq(s, 1, IF Len(s) < SlugMaxLen THEN Len(s) ELSE SlugMaxLen)

display_name(u) ==
    CASE u = 1 -> <<"A", "l">>
      [] u = 2 -> <<"B", "o", " ", "b">>
      [] OTHER -> <<"!", "!">>

Digit(n) == <<"0", "1", "2", "3", "4", "5", "6", "7", "8", "9">>[n + 1]

BaseName(u, num) == slugify_username(display_name(u)) \o <<"-", Digit(num)>>


ParentCapacity == 50

(* ------------------------------ state --------------------------------- *)
VARIABLES
    tickets,      \* the tickets table: row i has id i
    messages,     \* the messages table
    channels,     \* the platform's channels: channel i has id i
    createLock,   \* _CREATE_LOCKS: per guild, the holder and the FIFO of waiters
    dbWriter,     \* the coroutine whose connection holds sqlite's write lock, or 0
    gates,        \* _OPEN_GATES
    cooldowns,    \* _USER_CATEGORY_COOLDOWNS
    now,          \* time.time()
    proc,         \* the in-flight handlers: position and local variables
    delTasks,     \* scheduled _delete_later tasks, per channel
    creates,      \* on_submit calls begun
    ops,          \* other handlers begun
    ticks,        \* clock advances made
    scope,        \* the run's frame, never changed: may handlers overlap, and how
                  \* many creations, other handlers and clock advances it holds
    app,          \* the dashboard: is it up, and app.config's credentials
    session,      \* the browser's Flask session
    settings,     \* the config, categories and fields tables
    reply         \* the dashboard's latest response

\* the dashboard's part of the state

vars == <<tickets, messages, channels, createLock, dbWriter, gates, cooldowns,
          now, proc, delTasks, creates, ops, ticks, scope,
          app, session, settings, reply>>

\* Python's None; none of the form values below is this string
None == "None"

\* before create_app(): no application, an empty session, empty tables
DashIdle ==
    /\ app = [up |-> FALSE, DASHBOARD_USERNAME |-> None, DASHBOARD_PASSWORD |-> None]
    /\ session = [user |-> None, csrf_token |-> None]
    /\ settings = [config |-> {}, categories |-> <<>>, fields |-> <<>>]
    /\ reply = ""

IdleProc ==
    [op |-> "idle", pc |-> "idle", g |-> 0, u |-> 0, c |-> 0, ch |-> 0, t |-> 0,
     st |-> "", spr |-> "", pr |-> "", num |-> 0, tid |-> 0, rows |-> <<>>,
     idx |-> 0, closeAll |-> FALSE, delCh |-> FALSE, pend |-> <<>>,
     ename |-> <<>>, etopic |-> <<>>, edits |-> 0, res |-> "", full |-> FALSE]

InitCommon ==
    /\ tickets = <<>>
    /\ messages = <<>>
    /\ channels = <<>>
    /\ createLock = [g \in Guilds |-> [holder |-> 0, waiters |-> <<>>]]
    /\ dbWriter = 0
    /\ gates = [k \in Guilds \X Users |-> NULL]
    /\ cooldowns = [k \in Guilds \X Categories \X Users |-> NULL]
    /\ now = 1
    /\ proc = [p \in Procs |-> IdleProc]
    /\ delTasks = <<>>
    /\ creates = 0
    /\ ops = 0
    /\ ticks = 0
    /\ DashIdle

Frame(overlap, c, o, t) == [overlap |-> overlap, creates |-> c, ops |-> o, ticks |-> t]

Init == InitCommon /\ scope = Frame(TRUE, MaxCreates, MaxOps, MaxTicks)

(* ----------------------------- the store ------------------------------ *)
TicketIds == 1 .. Len(tickets)

\* SELECT * FROM tickets WHERE channel_id = ?  (fetchone)
TicketByChannel(ch) ==
    LET hits == {i \in TicketIds : tickets[i].channel_id = ch}
    IN  IF hits = {} THEN 0 ELSE CHOOSE i \in hits : \A j \in hits : i <= j

\* faulty variant: the count without its guild
OpenCountAllGuilds(g) ==
    Cardinality({i \in TicketIds : tickets[i].status # "closed"})

\* SELECT COUNT(1) FROM tickets WHERE guild_id = ? AND status != 'closed'
OpenCount(g) ==
    Cardinality({i \in TicketIds : tickets[i].guild_id = g /\ tickets[i].status # "closed"})

\* ... AND opener_id = ?
UserOpenCount(g, u) ==
    Cardinality({i \in TicketIds : /\ tickets[i].guild_id = g
                                   /\ tickets[i].opener_id = u
                                   /\ tickets[i].status # "closed"})

(* A write (or BEGIN IMMEDIATE) of a connection succeeds unless another    *)
(* connection holds an open write transaction; then sqlite answers         *)
(* "database is locked" and the statement raises.                          *)
DbFree(p) == dbWriter \in {0, p}

reserve_open_ticket_number(g) == OpenCount(g) + 1

(* --------------------------- handler slots ---------------------------- *)
Quiet(q) == proc[q].pc \in {"idle", "done"}

CanStart(p) ==
    /\ Quiet(p)
    /\ \A q \in Procs : q < p => ~Quiet(q)
    /\ ~scope.overlap => \A q \in Procs : Quiet(q)

\* slot p takes record x; only the latest report is kept
Put(p, x) ==
    [q \in Procs |->
        IF q = p THEN x
        ELSE IF x.pc = "done" /\ proc[q].pc = "done" THEN IdleProc
        ELSE proc[q]]

\* the report a handler with locals me leaves behind
Finish(me, r) ==
    [IdleProc EXCEPT !.op = me.op, !.pc = "done", !.res = r, !.u = me.u,
                     !.t = me.t, !.pr = me.pr, !.edits = me.edits]

(* ------------------------------ create -------------------------------- *)
gate_key(g, u) == <<g, u>>

\* faulty variant: the category left out of the key
cd_key_without_category(g, c, u) == <<g, 1, u>>

cd_key(g, c, u) == <<g, c, u>>

\* faulty variant: the test of the expiry left out
GateNeverDenies(exp, t) == FALSE

\* faulty variant: an expiry once registered denies for ever
GateDeniesOnceSet(exp, t) == exp # NULL

GateDenies(exp, t) == exp # NULL /\ t < exp

\* faulty variant: the limit test off by one
LimitDeniesAbove(count) == count > OPEN_TICKETS_PER_USER_LIMIT

LimitDenies(count) == count >= OPEN_TICKETS_PER_USER_LIMIT

ParentFull(n) == n >= ParentCapacity

\* faulty variant: a lock that admits whoever arrives
LockAcquireAtOnce(lk, p) == [holder |-> p, waiters |-> lk.waiters]

\* what "async with lock" does to the lock when p arrives
LockAcquire(lk, p) ==
    IF lk.holder = 0 /\ lk.waiters = <<>>
    THEN [holder |-> p, waiters |-> <<>>]
    ELSE [holder |-> lk.holder, waiters |-> Append(lk.waiters, p)]

\* faulty variant: the lock kept on the way out
LockKept(lk) == lk

\* leaving "async with lock": the first waiter, if any, is next
LockRelease(lk) ==
    IF lk.waiters = <<>>
    THEN [holder |-> 0, waiters |-> <<>>]
    ELSE [holder |-> Head(lk.waiters), waiters |-> Tail(lk.waiters)]

\* faulty variant: the refusal taken whether or not its notice went out
RefusedAnyway(hit, told) == hit

\* A refusal is "await interaction.followup.send(...)" followed by "return",
\* both inside "try: ... except Exception: pass": when the send raises, the
\* return is not reached and the handler goes on with the next check.
Refused(hit, told) == hit /\ told

\* on_submit from the gate to the first create_text_channel call; told is
\* whether followup.send delivers for this interaction
CreateChecks(p, g, u, c, parentCount, told) ==
    /\ CanStart(p)
    /\ creates < scope.creates
    /\ creates' = creates + 1
    /\ LET gk == gate_key(g, u)
           ck == cd_key(g, c, u)
           gateDeny == OPEN_TICKET_GATE_SECONDS > 0 /\ GateDenies(gates[gk], now)
           limitDeny == OPEN_TICKETS_PER_USER_LIMIT > 0 /\ LimitDenies(UserOpenCount(g, u))
           cdDeny == TICKET_OPEN_COOLDOWN_SECONDS > 0 /\ GateDenies(cooldowns[ck], now)
           me == [IdleProc EXCEPT !.op = "create", !.g = g, !.u = u, !.c = c]
           done(r) == [IdleProc EXCEPT !.op = "create", !.pc = "done", !.res = r, !.u = u,
                                       !.g = g, !.c = c]
           lk == LockAcquire(createLock[g], p)
       IN  /\ gates' = IF gateDeny \/ OPEN_TICKET_GATE_SECONDS <= 0 THEN gates
                       ELSE [gates EXCEPT ![gk] = now + OPEN_TICKET_GATE_SECONDS]
           /\ IF Refused(gateDeny, told) THEN
                  /\ proc' = Put(p, done("denied_gate"))
                  /\ UNCHANGED createLock
              ELSE IF Refused(limitDeny, told) THEN
                  /\ proc' = Put(p, done("denied_limit"))
                  /\ UNCHANGED createLock
              ELSE IF Refused(cdDeny, told) THEN
                  /\ proc' = Put(p, done("denied_cooldown"))
                  /\ UNCHANGED createLock
              ELSE IF ~DbFree(p) THEN
                  /\ proc' = Put(p, done("raised"))
                  /\ UNCHANGED createLock
              ELSE IF Refused(ParentFull(parentCount), told) THEN
                  /\ proc' = Put(p, done("category_full"))
                  /\ UNCHANGED createLock
              ELSE
                  /\ proc' = Put(p,
                                [me EXCEPT !.num = reserve_open_ticket_number(g),
                                           !.full = ParentFull(parentCount),
                                           !.pc = IF lk.holder = p THEN "c_create1" ELSE "c_wait1"])
                  /\ createLock' = [createLock EXCEPT ![g] = lk]
    /\ UNCHANGED <<tickets, messages, channels, dbWriter, cooldowns, now, delTasks,
                   ops, ticks, scope,
          app, session, settings, reply>>

\* the row on_submit inserts
NewTicket(num, g, u, ch, c) ==
    [ticket_number |-> num, guild_id |-> g, opener_id |-> u, channel_id |-> ch,
     category_id |-> c, status |-> "open", priority |-> "Low", created_at |-> now,
     closed_at |-> NULL, admin_closer_id |-> NULL, first_message_id |-> NULL]

NewChannel(g, name) ==
    [guild |-> g, name |-> name, topic |-> TopicPriority("Low"),
     openerWrite |-> TRUE, exists |-> TRUE]

\* faulty variant: the INSERT is reached whatever the call answered
ChannelCreatedAnyway(outcome) == TRUE

\* on_submit goes on to the INSERT exactly when a channel object was returned
ChannelCreated(outcome) == outcome = "ok"

\* the answer to a create_text_channel call: the lock is left, then either
\* the fallback call, the INSERT, or the end of the handler.  The platform
\* refuses a channel under a parent that already holds ParentCapacity.
CreateResp(p, outcome) ==
    /\ proc[p].pc \in {"c_create1", "c_create2"}
    /\ proc[p].full => outcome = "http"
    /\ LET me == proc[p]
           g == me.g
           first == me.pc = "c_create1"
           fallback == first /\ outcome = "http"
           rel == LockRelease(createLock[g])
           lk == IF fallback THEN LockAcquire(rel, p) ELSE rel
           woken == rel.holder
           base == BaseName(me.u, me.num)
           name == IF first THEN priority_emoji("Low") \o <<"-">> \o base ELSE base
           chId == Len(channels) + 1
           mine ==
               IF ChannelCreated(outcome) THEN
                   IF DbFree(p)
                   THEN [me EXCEPT !.pc = "c_intro", !.ch = chId, !.tid = Len(tickets) + 1,
                                   !.t = Len(tickets) + 1]
                   ELSE Finish(proc[p], "raised")
               ELSE IF fallback THEN
                   [me EXCEPT !.pc = IF lk.holder = p THEN "c_create2" ELSE "c_wait2"]
               ELSE IF outcome = "ratelimited" THEN Finish(proc[p], "rate_limited")
               ELSE Finish(proc[p], "raised")
       IN  /\ createLock' = [createLock EXCEPT ![g] = lk]
           /\ proc' = [q \in Procs |->
                         IF q = p THEN mine
                         ELSE IF q = woken
                              THEN [proc[q] EXCEPT !.pc = IF proc[q].pc = "c_wait1"
                                                          THEN "c_create1" ELSE "c_create2"]
                              ELSE Put(p, mine)[q]]
           /\ channels' = IF outcome = "ok"
                          THEN Append(channels, NewChannel(g, name)) ELSE channels
           /\ delTasks' = IF outcome = "ok" THEN Append(delTasks, 0) ELSE delTasks
           /\ tickets' = IF ChannelCreated(outcome) /\ DbFree(p)
                         THEN Append(tickets, NewTicket(me.num, g, me.u,
                                                        IF outcome = "ok" THEN chId ELSE NULL,
                                                        me.c))
                         ELSE tickets
    /\ UNCHANGED <<messages, dbWriter, gates, cooldowns, now, creates, ops, ticks, scope,
          app, session, settings, reply>>

\* the answer to channel.send(intro): the first message row, first_message_id,
\* the cooldown
CreateIntro(p, sent) ==
    /\ proc[p].pc = "c_intro"
    /\ LET me == proc[p]
           ck == cd_key(me.g, me.c, me.u)
       IN  IF DbFree(p) THEN
               /\ messages' = Append(messages, [ticket_id |-> me.tid,
                                                discord_message_id |-> NULL,
                                                author_id |-> me.u])
               /\ tickets' = IF sent
                             THEN [tickets EXCEPT ![me.tid].first_message_id = me.ch]
                             ELSE tickets
               /\ cooldowns' = IF TICKET_OPEN_COOLDOWN_SECONDS > 0
                               THEN [cooldowns EXCEPT ![ck] = now + TICKET_OPEN_COOLDOWN_SECONDS]
                               ELSE cooldowns
               /\ proc' = Put(p, Finish(proc[p], "ok"))
           ELSE
               /\ proc' = Put(p, Finish(proc[p], "raised"))
               /\ UNCHANGED <<messages, tickets, cooldowns>>
    /\ UNCHANGED <<channels, createLock, dbWriter, gates, now, delTasks, creates, ops,
                   ticks, scope,
          app, session, settings, reply>>

(* ------------------------------ clock --------------------------------- *)
Tick(d) ==
    /\ ticks < scope.ticks
    /\ ticks' = ticks + 1
    /\ now' = now + d
    /\ UNCHANGED <<tickets, messages, channels, createLock, dbWriter, gates, cooldowns,
                   proc, delTasks, creates, ops, scope,
          app, session, settings, reply>>

(* ------------------------- external edits ----------------------------- *)
(* An awaited channel edit ends in one of four ways: it is applied and     *)
(* answers ("ok"); the platform refuses it ("error"); the 3 s bound of     *)
(* wait_for passes and the request is dropped ("timeout"); or the bound    *)
(* passes and the abandoned request is applied all the same ("late").  An  *)
(* edit of a deleted channel is not applied.                               *)
EditOutcomes == {"ok", "error", "timeout", "late"}

ChannelIds == 1 .. Len(channels)

ChanPresent(chans, ch) == ch \in 1 .. Len(chans) /\ chans[ch].exists

EditPossible(ch, outcome) == outcome \in {"ok", "late"} => ChanPresent(channels, ch)

EditLanded(outcome) == outcome \in {"ok", "late"}

\* faulty variant: the "return True" left out
try_edit_channel_never_true(outcome) == FALSE

\* try_edit_channel's return value
try_edit_channel(outcome) == outcome = "ok"

\* the channel after an edit; <<>> stands for an argument left out
EditedChannel(c, name, topic, lockOpener) ==
    [c EXCEPT !.name = IF name = <<>> THEN @ ELSE name,
              !.topic = IF topic = <<>> THEN @ ELSE topic,
              !.openerWrite = IF lockOpener THEN FALSE ELSE @]

ApplyEdit(ch, outcome, name, topic, lockOpener) ==
    IF EditLanded(outcome)
    THEN [channels EXCEPT ![ch] = EditedChannel(@, name, topic, lockOpener)]
    ELSE channels

(* ---------------------------- mark_solved ----------------------------- *)
\* faulty variant: the rule of the priority callback used for mark_solved
MarkSolvedAllowedStaffToo(t, u) == tickets[t].opener_id = u \/ is_admin(u) \/ is_staff(u)

MarkSolvedAllowed(t, u) == tickets[t].opener_id = u

\* faulty variant: mark_solved without its test for a closed ticket
MarkSolvedIgnoresClosed(status) == FALSE

MarkSolvedRejectsClosed(status) == status = "closed"

\* mark_solved up to its first await: the checks and the status write
MarkSolved(p, u, ch) ==
    /\ CanStart(p)
    /\ ops < scope.ops
    /\ ChanPresent(channels, ch)
    /\ ops' = ops + 1
    /\ LET t == TicketByChannel(ch)
           me == [IdleProc EXCEPT !.op = "solve", !.g = channels[ch].guild, !.u = u,
                                  !.ch = ch, !.t = t]
           done(r) == [IdleProc EXCEPT !.op = "solve", !.pc = "done", !.res = r, !.u = u,
                                       !.t = t]
       IN  IF t = 0 THEN
               /\ proc' = Put(p, done("not_ticket"))
               /\ UNCHANGED tickets
           ELSE IF ~MarkSolvedAllowed(t, u) THEN
               /\ proc' = Put(p, done("perm_denied"))
               /\ UNCHANGED tickets
           ELSE IF MarkSolvedRejectsClosed(tickets[t].status) THEN
               /\ proc' = Put(p, done("already_closed"))
               /\ UNCHANGED tickets
           ELSE IF ~DbFree(p) THEN
               /\ proc' = Put(p, done("raised"))
               /\ UNCHANGED tickets
           ELSE
               /\ tickets' = [tickets EXCEPT ![t].status = "pending_close"]
               /\ proc' = Put(p, [me EXCEPT !.pc = "s_notify"])
    /\ UNCHANGED <<messages, channels, createLock, dbWriter, gates, cooldowns, now,
                   delTasks, creates, ticks, scope,
          app, session, settings, reply>>

\* the answers to response.send_message and channel.send; then the first edit
\* is issued with the name read now
SolveNotify(p, outcome) ==
    /\ proc[p].pc = "s_notify"
    /\ LET me == proc[p]
       IN  proc' = Put(p,
                IF outcome = "respond_failed" THEN Finish(proc[p], "raised")
                ELSE IF outcome = "send_failed" THEN Finish(proc[p], "ok")
                ELSE [me EXCEPT !.pc = "s_edit1", !.edits = @ + 1,
                                !.ename = SolvedName(channels[me.ch].name),
                                !.etopic = TopicPending])
    /\ UNCHANGED <<tickets, messages, channels, createLock, dbWriter, gates, cooldowns,
                   now, delTasks, creates, ops, ticks, scope,
          app, session, settings, reply>>

\* the answer to the name+topic edit; when it failed the topic alone is tried
SolveEdit1(p, outcome) ==
    /\ proc[p].pc = "s_edit1"
    /\ EditPossible(proc[p].ch, outcome)
    /\ LET me == proc[p]
       IN  /\ channels' = ApplyEdit(me.ch, outcome, me.ename, me.etopic, FALSE)
           /\ proc' = Put(p,
                IF try_edit_channel(outcome) THEN Finish(proc[p], "ok")
                ELSE [me EXCEPT !.pc = "s_edit2", !.edits = @ + 1, !.ename = <<>>])
    /\ UNCHANGED <<tickets, messages, createLock, dbWriter, gates, cooldowns, now,
                   delTasks, creates, ops, ticks, scope,
          app, session, settings, reply>>

SolveEdit2(p, outcome) ==
    /\ proc[p].pc = "s_edit2"
    /\ EditPossible(proc[p].ch, outcome)
    /\ LET me == proc[p]
       IN  /\ channels' = ApplyEdit(me.ch, outcome, <<>>, me.etopic, FALSE)
           /\ proc' = Put(p, Finish(proc[p], "ok"))
    /\ UNCHANGED <<tickets, messages, createLock, dbWriter, gates, cooldowns, now,
                   delTasks, creates, ops, ticks, scope,
          app, session, settings, reply>>

(* --------------------------- confirm_close ---------------------------- *)
\* faulty variant: confirm_close without its test of the actor
CloseAllowedAnyone(u) == TRUE

CloseAllowed(u) == is_admin(u) \/ is_staff(u)

\* faulty variant: confirm_close without its test for a closed ticket
CloseIgnoresClosed(status) == FALSE

CloseRejectsClosed(status) == status = "closed"

\* confirm_close up to defer_update
ConfirmClose(p, u, ch) ==
    /\ CanStart(p)
    /\ ops < scope.ops
    /\ ChanPresent(channels, ch)
    /\ ops' = ops + 1
    /\ LET t == TicketByChannel(ch)
           me == [IdleProc EXCEPT !.op = "close", !.g = channels[ch].guild, !.u = u,
                                  !.ch = ch, !.t = t]
           done(r) == [IdleProc EXCEPT !.op = "close", !.pc = "done", !.res = r, !.u = u,
                                       !.t = t]
       IN  proc' = Put(p,
                IF ~CloseAllowed(u) THEN done("perm_denied")
                ELSE IF t = 0 THEN done("not_ticket")
                ELSE IF CloseRejectsClosed(tickets[t].status) THEN done("already_closed")
                ELSE [me EXCEPT !.pc = "k_defer", !.st = tickets[t].status])
    /\ UNCHANGED <<tickets, messages, channels, createLock, dbWriter, gates, cooldowns,
                   now, delTasks, creates, ticks, scope,
          app, session, settings, reply>>

\* after defer_update: the edit is issued with the name read now
CloseIssue(p) ==
    /\ proc[p].pc = "k_defer"
    /\ LET me == proc[p]
       IN  proc' = Put(p,
                [me EXCEPT !.pc = "k_edit", !.edits = @ + 1,
                           !.ename = SolvedName(channels[me.ch].name),
                           !.etopic = TopicClosed])
    /\ UNCHANGED <<tickets, messages, channels, createLock, dbWriter, gates, cooldowns,
                   now, delTasks, creates, ops, ticks, scope,
          app, session, settings, reply>>

\* faulty variant: the UPDATE is reached whatever the edit answered
ClosePersistsAnyway(ok) == TRUE

\* confirm_close goes on to the UPDATE exactly when ok is true
ClosePersists(ok) == ok

\* faulty variant: the task is never created
ScheduleNothing(tasks, ch) == tasks

\* asyncio.create_task(_delete_later(ch))
ScheduleDelete(tasks, ch) == [tasks EXCEPT ![ch] = @ + 1]

\* the answer to the edit: the UPDATE and the deletion task, or "retry".  The
\* two notices sent between the commit and create_task cannot fail the
\* handler (their exceptions are swallowed) and touch no state.
CloseEdit(p, outcome) ==
    /\ proc[p].pc = "k_edit"
    /\ EditPossible(proc[p].ch, outcome)
    /\ LET me == proc[p]
           ok == try_edit_channel(outcome)
           write == ClosePersists(ok) /\ DbFree(p)
       IN  /\ channels' = ApplyEdit(me.ch, outcome, me.ename, me.etopic, TRUE)
           /\ tickets' = IF write
                         THEN [tickets EXCEPT ![me.t].status = "closed",
                                              ![me.t].closed_at = now,
                                              ![me.t].admin_closer_id = me.u]
                         ELSE tickets
           /\ delTasks' = IF write THEN ScheduleDelete(delTasks, me.ch) ELSE delTasks
           /\ proc' = Put(p,
                IF ~ClosePersists(ok) THEN Finish(proc[p], "retry_later")
                ELSE IF ~DbFree(p) THEN Finish(proc[p], "raised")
                ELSE Finish(proc[p], "ok"))
    /\ UNCHANGED <<messages, createLock, dbWriter, gates, cooldowns, now, creates, ops,
                   ticks, scope,
          app, session, settings, reply>>

\* _delete_later: channel.delete after the sleep; a failure is swallowed
DeleteLater(ch, ok) ==
    /\ ch \in ChannelIds
    /\ delTasks[ch] > 0
    /\ delTasks' = [delTasks EXCEPT ![ch] = @ - 1]
    /\ channels' = IF ok THEN [channels EXCEPT ![ch].exists = FALSE] ELSE channels
    /\ UNCHANGED <<tickets, messages, createLock, dbWriter, gates, cooldowns, now, proc,
                   creates, ops, ticks, scope,
          app, session, settings, reply>>

(* ----------------------- PrioritySelect.callback ---------------------- *)
\* faulty variant: the column's default read in place of the stored value
RowPriorityDefault(t) == "Low"

\* t["priority"] of the row the callback selected
RowPriority(t) == tickets[t].priority

PriorityAllowed(t, u) == tickets[t].opener_id = u \/ is_admin(u) \/ is_staff(u)

\* faulty variant: the callback without its test for an unchanged priority
PriorityUnchangedNever(stored, pr) == FALSE

PriorityUnchanged(stored, pr) == casefold(stored) = casefold(pr)

\* callback up to defer_update
PriorityStart(p, u, ch, pr) ==
    /\ CanStart(p)
    /\ ops < scope.ops
    /\ ChanPresent(channels, ch)
    /\ ops' = ops + 1
    /\ LET t == TicketByChannel(ch)
           me == [IdleProc EXCEPT !.op = "prio", !.g = channels[ch].guild, !.u = u,
                                  !.ch = ch, !.t = t, !.pr = pr]
           done(r) == [IdleProc EXCEPT !.op = "prio", !.pc = "done", !.res = r, !.u = u,
                                       !.t = t, !.pr = pr]
       IN  proc' = Put(p,
                IF t = 0 THEN done("not_ticket")
                ELSE IF ~PriorityAllowed(t, u) THEN done("perm_denied")
                ELSE [me EXCEPT !.pc = "p_defer", !.st = tickets[t].status,
                                !.spr = RowPriority(t)])
    /\ UNCHANGED <<tickets, messages, channels, createLock, dbWriter, gates, cooldowns,
                   now, delTasks, creates, ticks, scope,
          app, session, settings, reply>>

\* after defer_update: the no-op test on the row read before, then the edit
PriorityIssue(p) ==
    /\ proc[p].pc = "p_defer"
    /\ LET me == proc[p]
           solved == me.st \in {"pending_close", "closed"}
           name == channels[me.ch].name
       IN  proc' = Put(p,
                IF PriorityUnchanged(me.spr, me.pr) THEN Finish(proc[p], "noop")
                ELSE [me EXCEPT !.pc = "p_edit", !.edits = @ + 1,
                                !.ename = IF solved THEN SolvedName(name)
                                          ELSE PriorityName(name, me.pr),
                                !.etopic = IF solved
                                           THEN (IF me.st = "pending_close"
                                                 THEN TopicPending ELSE TopicClosed)
                                           ELSE TopicPriority(me.pr)])
    /\ UNCHANGED <<tickets, messages, channels, createLock, dbWriter, gates, cooldowns,
                   now, delTasks, creates, ops, ticks, scope,
          app, session, settings, reply>>

\* faulty variant: the UPDATE is reached whatever the edit answered
PriorityPersistsAnyway(ok) == TRUE

\* the callback goes on to the UPDATE exactly when ok is true
PriorityPersists(ok) == ok

PriorityEdit(p, outcome) ==
    /\ proc[p].pc = "p_edit"
    /\ EditPossible(proc[p].ch, outcome)
    /\ LET me == proc[p]
           ok == try_edit_channel(outcome)
           write == PriorityPersists(ok) /\ DbFree(p)
       IN  /\ channels' = ApplyEdit(me.ch, outcome, me.ename, me.etopic, FALSE)
           /\ tickets' = IF write THEN [tickets EXCEPT ![me.t].priority = me.pr]
                         ELSE tickets
           /\ proc' = Put(p,
                IF ~PriorityPersists(ok) THEN Finish(proc[p], "retry_later")
                ELSE IF ~DbFree(p) THEN Finish(proc[p], "raised")
                ELSE Finish(proc[p], "ok"))
    /\ UNCHANGED <<messages, createLock, dbWriter, gates, cooldowns, now, delTasks,
                   creates, ops, ticks, scope,
          app, session, settings, reply>>

(* ------------------------- set_ticket_priority ------------------------ *)
\* the columns the command's SELECT names
SlashColumns == {"id", "ticket_number", "status", "first_message_id"}

\* t[col] of an sqlite3.Row raises IndexError for a column not selected
RowHas(cols, col) == col \in cols

\* the slash command up to its first await; its edit is answered in
\* PriorityEdit, the same way as the callback's
SetTicketPriority(p, u, ch, pr) ==
    /\ CanStart(p)
    /\ ops < scope.ops
    /\ ChanPresent(channels, ch)
    /\ ops' = ops + 1
    /\ LET t == TicketByChannel(ch)
           me == [IdleProc EXCEPT !.op = "slash", !.g = channels[ch].guild, !.u = u,
                                  !.ch = ch, !.t = t, !.pr = pr]
           done(r) == [IdleProc EXCEPT !.op = "slash", !.pc = "done", !.res = r, !.u = u,
                                       !.t = t, !.pr = pr]
           solved == tickets[t].status \in {"pending_close", "closed"}
           name == channels[ch].name
       IN  proc' = Put(p,
                IF ~is_admin(u) THEN done("perm_denied")
                ELSE IF t = 0 THEN done("not_ticket")
                ELSE IF ~RowHas(SlashColumns, "priority") THEN done("raised")
                ELSE IF PriorityUnchanged(RowPriority(t), pr) THEN done("noop")
                ELSE [me EXCEPT !.pc = "p_edit", !.edits = 1, !.st = tickets[t].status,
                                !.ename = IF solved THEN SolvedName(name)
                                          ELSE PriorityName(name, pr),
                                !.etopic = IF solved
                                           THEN (IF tickets[t].status = "pending_close"
                                                 THEN TopicPending ELSE TopicClosed)
                                           ELSE TopicPriority(pr)])
    /\ UNCHANGED <<tickets, messages, channels, createLock, dbWriter, gates, cooldowns,
                   now, delTasks, creates, ticks, scope,
          app, session, settings, reply>>

(* -------------------------- reconcile_tickets ------------------------- *)
(* The handler reads the guild's non-closed rows once, then walks them.    *)
(* Its UPDATEs stay uncommitted (in pend, invisible to other connections)  *)
(* until the commit after the loop; from the first UPDATE on its           *)
(* connection holds the write lock.                                        *)
RECURSIVE RowsOf(_, _)
RowsOf(g, i) ==
    IF i > Len(tickets) THEN <<>>
    ELSE (IF tickets[i].guild_id = g /\ tickets[i].status # "closed" THEN <<i>> ELSE <<>>)
         \o RowsOf(g, i + 1)

RECURSIVE MissingFrom(_, _, _, _)
MissingFrom(rows, i, stop, chans) ==
    IF i >= stop THEN <<>>
    ELSE (IF ChanPresent(chans, tickets[rows[i]].channel_id) THEN <<>>
          ELSE <<[id |-> rows[i], at |-> now]>>)
         \o MissingFrom(rows, i + 1, stop, chans)

\* faulty variant: the status written without the time of the close
ClosedRowUnstamped(row, at) == [row EXCEPT !.status = "closed"]

\* faulty variant: the queue number given back on close
ClosedRowNumberFreed(row, at) ==
    [row EXCEPT !.status = "closed", !.closed_at = at, !.ticket_number = 0]

\* UPDATE tickets SET status='closed', closed_at=? WHERE id=?
ClosedRow(row, at) == [row EXCEPT !.status = "closed", !.closed_at = at]

RECURSIVE Committed(_, _)
Committed(tk, pend) ==
    IF pend = <<>> THEN tk
    ELSE Committed([tk EXCEPT ![Head(pend).id] = ClosedRow(@, Head(pend).at)],
                   Tail(pend))

\* faulty variant: the test of close_all left out
RowAwaitsAlways(closeAll, present) == present

\* the loop stops to await only at a row whose channel exists, under close_all
RowAwaits(closeAll, present) == closeAll /\ present

\* the loop from row idx up to its next await, or through the commit
RecAdvance(p, me, idx, chans) ==
    LET rows == me.rows
        halts == {j \in idx .. Len(rows) :
                    RowAwaits(me.closeAll, ChanPresent(chans, tickets[rows[j]].channel_id))}
        stop == IF halts = {} THEN Len(rows) + 1
                ELSE CHOOSE j \in halts : \A k \in halts : j <= k
        missing == MissingFrom(rows, idx, stop, chans)
        pend == me.pend \o missing
    IN  IF missing # <<>> /\ ~DbFree(p) THEN
            [proc |-> Finish(me, "raised"), tickets |-> tickets, db |-> dbWriter]
        ELSE IF stop <= Len(rows) THEN
            [proc |-> [me EXCEPT !.pc = "r_send", !.idx = stop, !.pend = pend],
             tickets |-> tickets,
             db |-> IF pend # <<>> THEN p ELSE dbWriter]
        ELSE
            [proc |-> Finish(me, "ok"),
             tickets |-> Committed(tickets, pend),
             db |-> IF pend # <<>> THEN 0 ELSE dbWriter]

\* reconcile_tickets from the SELECT to its first await
ReconcileStart(p, u, g, closeAll, delCh) ==
    /\ CanStart(p)
    /\ ops < scope.ops
    /\ ops' = ops + 1
    /\ LET me == [IdleProc EXCEPT !.op = "reconcile", !.g = g, !.u = u,
                                  !.closeAll = closeAll, !.delCh = delCh,
                                  !.rows = RowsOf(g, 1)]
           nxt == RecAdvance(p, me, 1, channels)
       IN  IF ~is_admin(u) THEN
               /\ proc' = Put(p, [IdleProc EXCEPT !.op = "reconcile", !.pc = "done",
                                                   !.u = u, !.res = "perm_denied"])
               /\ UNCHANGED <<tickets, dbWriter>>
           ELSE
               /\ proc' = Put(p, nxt.proc)
               /\ tickets' = nxt.tickets
               /\ dbWriter' = nxt.db
    /\ UNCHANGED <<messages, channels, createLock, gates, cooldowns, now, delTasks,
                   creates, ticks, scope,
          app, session, settings, reply>>

\* the answer to ch.send (swallowed either way), then this row's UPDATE
ReconcileSent(p) ==
    /\ proc[p].pc = "r_send"
    /\ LET me == proc[p]
           row == [id |-> me.rows[me.idx], at |-> now]
           wrote == [me EXCEPT !.pend = Append(@, row)]
           nxt == RecAdvance(p, wrote, me.idx + 1, channels)
       IN  IF ~DbFree(p) THEN
               /\ proc' = Put(p, Finish(proc[p], "raised"))
               /\ UNCHANGED <<tickets, dbWriter>>
           ELSE IF me.delCh THEN
               /\ proc' = Put(p, [wrote EXCEPT !.pc = "r_delete"])
               /\ dbWriter' = p
               /\ UNCHANGED tickets
           ELSE
               /\ proc' = Put(p, nxt.proc)
               /\ tickets' = nxt.tickets
               /\ dbWriter' = nxt.db
    /\ UNCHANGED <<messages, channels, createLock, gates, cooldowns, now, delTasks,
                   creates, ops, ticks, scope,
          app, session, settings, reply>>

\* the answer to ch.delete (a failure is swallowed), then the next rows
ReconcileDeleted(p, ok) ==
    /\ proc[p].pc = "r_delete"
    /\ LET me == proc[p]
           ch == tickets[me.rows[me.idx]].channel_id
           chans == IF ok THEN [channels EXCEPT ![ch].exists = FALSE] ELSE channels
           nxt == RecAdvance(p, me, me.idx + 1, chans)
       IN  /\ channels' = chans
           /\ proc' = Put(p, nxt.proc)
           /\ tickets' = nxt.tickets
           /\ dbWriter' = nxt.db
    /\ UNCHANGED <<messages, createLock, gates, cooldowns, now, delTasks, creates, ops,
                   ticks, scope,
          app, session, settings, reply>>

(* ----------------------------- on_message ----------------------------- *)
(* The handler has no await: it is one step.  Nothing is logged for a bot, *)
(* outside a ticket channel, or for a closed ticket; an INSERT that sqlite *)
(* refuses raises and logs nothing.  room is how many more rows the run    *)
(* may log.                                                                *)
\* faulty variant: the test for a closed ticket left out
LoggedThoughClosed(bot, t) == ~bot /\ t # 0

\* on_message gets as far as its INSERT
Logged(bot, t) == ~bot /\ t # 0 /\ tickets[t].status # "closed"

OnMessage(ch, u, bot, room) ==
    /\ ChanPresent(channels, ch)
    /\ room > 0
    /\ LET t == TicketByChannel(ch)
       IN  messages' =
              IF ~Logged(bot, t) THEN messages
              ELSE IF dbWriter # 0 THEN messages
              ELSE Append(messages, [ticket_id |-> t,
                                     discord_message_id |-> Len(messages) + 1,
                                     author_id |-> u])
    /\ UNCHANGED <<tickets, channels, createLock, dbWriter, gates, cooldowns, now, proc,
                   delTasks, creates, ops, ticks, scope,
          app, session, settings, reply>>

(* --------------------------- environment ------------------------------ *)
\* somebody deletes a ticket channel by hand
ExternalDelete(ch) ==
    /\ ChanPresent(channels, ch)
    /\ channels' = [channels EXCEPT ![ch].exists = FALSE]
    /\ UNCHANGED <<tickets, messages, createLock, dbWriter, gates, cooldowns, now, proc,
                   delTasks, creates, ops, ticks, scope,
          app, session, settings, reply>>

(* --------------------------- specification ---------------------------- *)
\* every handler, with its inputs drawn from the given sets
NextOver(GS, US, CS, PS) ==
    \/ \E p \in Procs, g \in GS, u \in US, c \in CS,
          n \in {0, ParentCapacity}, told \in BOOLEAN : CreateChecks(p, g, u, c, n, told)
    \/ \E p \in Procs, o \in {"ok", "http", "ratelimited"} : CreateResp(p, o)
    \/ \E p \in Procs, sent \in BOOLEAN : CreateIntro(p, sent)
    \/ \E p \in Procs, u \in US, ch \in ChannelIds : MarkSolved(p, u, ch)
    \/ \E p \in Procs, o \in {"ok", "respond_failed", "send_failed"} : SolveNotify(p, o)
    \/ \E p \in Procs, o \in EditOutcomes : SolveEdit1(p, o)
    \/ \E p \in Procs, o \in EditOutcomes : SolveEdit2(p, o)
    \/ \E p \in Procs, u \in US, ch \in ChannelIds : ConfirmClose(p, u, ch)
    \/ \E p \in Procs : CloseIssue(p)
    \/ \E p \in Procs, o \in EditOutcomes : CloseEdit(p, o)
    \/ \E ch \in ChannelIds, ok \in BOOLEAN : DeleteLater(ch, ok)
    \/ \E p \in Procs, u \in US, ch \in ChannelIds, pr \in PS :
          PriorityStart(p, u, ch, pr)
    \/ \E p \in Procs : PriorityIssue(p)
    \/ \E p \in Procs, o \in EditOutcomes : PriorityEdit(p, o)
    \/ \E p \in Procs, u \in US, ch \in ChannelIds, pr \in PS :
          SetTicketPriority(p, u, ch, pr)
    \/ \E p \in Procs, u \in US, g \in GS, ca \in BOOLEAN, dc \in BOOLEAN :
          ReconcileStart(p, u, g, ca, dc)
    \/ \E p \in Procs : ReconcileSent(p)
    \/ \E p \in Procs, ok \in BOOLEAN : ReconcileDeleted(p, ok)
    \/ \E ch \in ChannelIds : ExternalDelete(ch)

Next ==
    \/ NextOver(Guilds, Users, Categories, Priorities)
    \/ \E d \in TickSteps : Tick(d)

Spec == Init /\ [][Next]_vars

(* ------------- the lifecycle of tickets that already exist ------------ *)
(* SpecLife starts where creations have just ended: user 1's ticket in     *)
(* guild 1, alone or followed by a ticket of user 2 in guild 1 or guild 2, *)
(* each created without any failure.  From there mark_solved,              *)
(* confirm_close, the priority callback, reconcile, the scheduled and the  *)
(* manual channel deletions interleave freely.                             *)
LifeStarts == {<<1>>, <<1, 1>>, <<1, 2>>}
LifePriorities == {"Low", "High"}

StartTicket(gs, i) ==
    [ticket_number |-> Cardinality({j \in 1 .. i : gs[j] = gs[i]}),
     guild_id |-> gs[i], opener_id |-> i, channel_id |-> i, category_id |-> 1,
     status |-> "open", priority |-> "Low", created_at |-> 1, closed_at |-> NULL,
     admin_closer_id |-> NULL, first_message_id |-> i]

StartChannel(gs, i) ==
    [guild |-> gs[i],
     name |-> priority_emoji("Low") \o <<"-">> \o BaseName(i, StartTicket(gs, i).ticket_number),
     topic |-> TopicPriority("Low"), openerWrite |-> TRUE, exists |-> TRUE]

Created(gs) ==
    /\ tickets = [i \in 1 .. Len(gs) |-> StartTicket(gs, i)]
    /\ messages = [i \in 1 .. Len(gs) |->
                     [ticket_id |-> i, discord_message_id |-> NULL, author_id |-> i]]
    /\ channels = [i \in 1 .. Len(gs) |-> StartChannel(gs, i)]
    /\ createLock = [g \in Guilds |-> [holder |-> 0, waiters |-> <<>>]]
    /\ dbWriter = 0
    /\ gates = [k \in Guilds \X Users |->
                  IF \E i \in 1 .. Len(gs) : k = <<gs[i], i>>
                  THEN 1 + OPEN_TICKET_GATE_SECONDS ELSE NULL]
    /\ cooldowns = [k \in Guilds \X Categories \X Users |->
                      IF \E i \in 1 .. Len(gs) : k = <<gs[i], 1, i>>
                      THEN 1 + TICKET_OPEN_COOLDOWN_SECONDS ELSE NULL]
    /\ now = 1
    /\ proc = [p \in Procs |->
                 IF p = 1
                 THEN [IdleProc EXCEPT !.op = "create", !.pc = "done", !.res = "ok",
                                       !.u = Len(gs), !.t = Len(gs)]
                 ELSE IdleProc]
    /\ delTasks = [i \in 1 .. Len(gs) |-> 0]
    /\ creates = Len(gs)
    /\ ops = 0
    /\ ticks = 0
    /\ DashIdle

InitLife ==
    /\ \E gs \in LifeStarts : Created(gs)
    /\ scope = Frame(TRUE, Len(tickets),
                      IF Len(tickets) = 1 THEN LifeMaxOps ELSE LifeMaxOps - 1, 0)

NextLife ==
    \/ \E p \in Procs, u \in Users, ch \in ChannelIds : MarkSolved(p, u, ch)
    \/ \E p \in Procs, o \in {"ok", "respond_failed", "send_failed"} : SolveNotify(p, o)
    \/ \E p \in Procs, o \in EditOutcomes : SolveEdit1(p, o)
    \/ \E p \in Procs, o \in EditOutcomes : SolveEdit2(p, o)
    \/ \E p \in Procs, u \in Users, ch \in ChannelIds : ConfirmClose(p, u, ch)
    \/ \E p \in Procs : CloseIssue(p)
    \/ \E p \in Procs, o \in EditOutcomes : CloseEdit(p, o)
    \/ \E ch \in ChannelIds, ok \in BOOLEAN : DeleteLater(ch, ok)
    \/ \E p \in Procs, u \in Users, ch \in ChannelIds, pr \in LifePriorities :
          PriorityStart(p, u, ch, pr)
    \/ \E p \in Procs : PriorityIssue(p)
    \/ \E p \in Procs, o \in EditOutcomes : PriorityEdit(p, o)
    \/ \E p \in Procs, u \in Users, ch \in ChannelIds, pr \in LifePriorities :
          SetTicketPriority(p, u, ch, pr)
    \/ \E p \in Procs, u \in Users, g \in Guilds, ca \in BOOLEAN, dc \in BOOLEAN :
          ReconcileStart(p, u, g, ca, dc)
    \/ \E p \in Procs : ReconcileSent(p)
    \/ \E p \in Procs, ok \in BOOLEAN : ReconcileDeleted(p, ok)
    \/ \E ch \in ChannelIds : ExternalDelete(ch)

SpecLife == InitLife /\ [][NextLife]_vars

(* ------------------------ creations on their own --------------------- *)
InitCreate == InitCommon /\ scope = Frame(TRUE, CreateMaxCreates, 0, CreateMaxTicks)

NextCreate ==
    \/ \E p \in Procs, g \in Guilds, u \in Users, c \in Categories,
          n \in {0, ParentCapacity}, told \in BOOLEAN : CreateChecks(p, g, u, c, n, told)
    \/ \E p \in Procs, o \in {"ok", "http", "ratelimited"} : CreateResp(p, o)
    \/ \E p \in Procs, sent \in BOOLEAN : CreateIntro(p, sent)
    \/ \E d \in TickSteps : Tick(d)

SpecCreate == InitCreate /\ [][NextCreate]_vars

(* ---------------------- handlers one at a time ------------------------ *)
(* Under SpecSeq a handler begins only when no other handler is under way; *)
(* scheduled deletions and manual deletions still interleave.              *)
InitSeq == InitCommon /\ scope = Frame(FALSE, SeqMaxCreates, SeqMaxOps, 0)

NextSeq == NextOver({1}, Users, {1}, LifePriorities)

SpecSeq == InitSeq /\ [][NextSeq]_vars

(* ------------------- a user who comes back for more ------------------- *)
(* SpecAgain follows user 1 in guild 1 and category 1: on_submit, staff    *)
(* member 2 closing the ticket, the scheduled deletion, and the clock      *)
(* moving to just before or just after the end of the cooldown.            *)
AgainSteps == {59, 61}

InitAgain == InitCommon /\ scope = Frame(TRUE, AgainMaxCreates, AgainMaxOps, AgainMaxTicks)

NextAgain ==
    \/ \E p \in Procs, n \in {0, ParentCapacity}, told \in BOOLEAN :
          CreateChecks(p, 1, 1, 1, n, told)
    \/ \E p \in Procs, o \in {"ok", "http", "ratelimited"} : CreateResp(p, o)
    \/ \E p \in Procs, sent \in BOOLEAN : CreateIntro(p, sent)
    \/ \E p \in Procs, ch \in ChannelIds : ConfirmClose(p, 2, ch)
    \/ \E p \in Procs : CloseIssue(p)
    \/ \E p \in Procs, o \in EditOutcomes : CloseEdit(p, o)
    \/ \E ch \in ChannelIds, ok \in BOOLEAN : DeleteLater(ch, ok)
    \/ \E d \in AgainSteps : Tick(d)

SpecAgain == InitAgain /\ [][NextAgain]_vars

(* ---------------- a create call that is never answered --------------- *)
(* safe_create_text_channel awaits create_text_channel without a time      *)
(* bound.  CreateUnanswered is the platform dropping the request: no       *)
(* answer will come, and the handler, which holds the guild's lock, has no *)
(* step of its own from there.  SpecHang lets every step that can be taken *)
(* be taken.                                                               *)
CreateUnanswered(p) ==
    /\ proc[p].pc \in {"c_create1", "c_create2"}
    /\ proc' = [proc EXCEPT ![p].pc = "c_hung"]
    /\ UNCHANGED <<tickets, messages, channels, createLock, dbWriter, gates, cooldowns,
                   now, delTasks, creates, ops, ticks, scope,
          app, session, settings, reply>>

InitHang == InitCommon /\ scope = Frame(TRUE, HangMaxCreates, 0, 0)

NextHang ==
    \/ \E p \in Procs, u \in Users, n \in {0, ParentCapacity}, told \in BOOLEAN :
          CreateChecks(p, 1, u, 1, n, told)
    \/ \E p \in Procs, o \in {"ok", "http", "ratelimited"} : CreateResp(p, o)
    \/ \E p \in Procs : CreateUnanswered(p)
    \/ \E p \in Procs, sent \in BOOLEAN : CreateIntro(p, sent)

SpecHang == InitHang /\ [][NextHang]_vars /\ WF_vars(NextHang)

(* --------------------- closing and what follows ----------------------- *)
(* SpecShut starts like SpecLife and follows confirm_close and the         *)
(* deletion tasks it creates.  A task created with asyncio.create_task is  *)
(* run by the event loop: it sleeps 3 seconds and calls channel.delete,    *)
(* hence the fairness of DeleteLater.                                      *)
InitShut ==
    /\ \E gs \in LifeStarts : Created(gs)
    /\ scope = Frame(TRUE, Len(tickets), ShutMaxOps, 0)

NextShut ==
    \/ \E p \in Procs, u \in Users, ch \in ChannelIds : ConfirmClose(p, u, ch)
    \/ \E p \in Procs : CloseIssue(p)
    \/ \E p \in Procs, o \in EditOutcomes : CloseEdit(p, o)
    \/ \E ch \in ChannelIds, ok \in BOOLEAN : DeleteLater(ch, ok)
    \/ \E ch \in ChannelIds : ExternalDelete(ch)

SpecShut ==
    InitShut /\ [][NextShut]_vars /\ WF_vars(\E ch \in ChannelIds, ok \in BOOLEAN : DeleteLater(ch, ok))

(* ------------------ a creation among existing tickets ----------------- *)
(* SpecReserve starts like SpecLife, with one or two tickets in one or two *)
(* guilds, and lets one more on_submit run while a confirm_close or a      *)
(* reconcile is under way or has ended.                                    *)
InitReserve ==
    /\ \E gs \in LifeStarts : Created(gs)
    /\ scope = Frame(TRUE, Len(tickets) + ReserveMaxCreates, ReserveMaxOps, 0)

NextReserve ==
    \/ \E p \in Procs, g \in Guilds, u \in Users, n \in {0, ParentCapacity},
          told \in BOOLEAN : CreateChecks(p, g, u, 1, n, told)
    \/ \E p \in Procs, o \in {"ok", "http", "ratelimited"} : CreateResp(p, o)
    \/ \E p \in Procs, sent \in BOOLEAN : CreateIntro(p, sent)
    \/ \E p \in Procs, u \in Users, ch \in ChannelIds : ConfirmClose(p, u, ch)
    \/ \E p \in Procs : CloseIssue(p)
    \/ \E p \in Procs, o \in EditOutcomes : CloseEdit(p, o)
    \/ \E ch \in ChannelIds, ok \in BOOLEAN : DeleteLater(ch, ok)
    \/ \E p \in Procs, u \in Users, g \in Guilds, ca \in BOOLEAN, dc \in BOOLEAN :
          ReconcileStart(p, u, g, ca, dc)
    \/ \E p \in Procs : ReconcileSent(p)
    \/ \E p \in Procs, ok \in BOOLEAN : ReconcileDeleted(p, ok)
    \/ \E ch \in ChannelIds : ExternalDelete(ch)

SpecReserve == InitReserve /\ [][NextReserve]_vars

(* -------------------- the lifecycle with its log ---------------------- *)
(* SpecLog starts like SpecLife and adds the messages written in ticket    *)
(* channels by members and by bots.                                        *)
InitLog ==
    /\ \E gs \in LifeStarts : Created(gs)
    /\ scope = Frame(TRUE, Len(tickets),
                      IF Len(tickets) = 1 THEN LogMaxOps ELSE LogMaxOps - 1, 0)

NextLog ==
    \/ NextLife
    \/ \E ch \in ChannelIds, u \in {1, 2}, bot \in BOOLEAN :
          OnMessage(ch, u, bot, Len(tickets) + LogMaxMessages - Len(messages))

SpecLog == InitLog /\ [][NextLog]_vars

(* ------------- two transitions whose edits all succeed ---------------- *)
(* SpecPair has one ticket and two of mark_solved, confirm_close and the   *)
(* priority callback, overlapping or not; every notice is delivered and    *)
(* every channel edit is applied and answers with success.                 *)
InitPair ==
    /\ Created(<<1>>)
    /\ scope = Frame(TRUE, Len(tickets), PairMaxOps, 0)

NextPair ==
    \/ \E p \in Procs, u \in Users, ch \in ChannelIds : MarkSolved(p, u, ch)
    \/ \E p \in Procs : SolveNotify(p, "ok")
    \/ \E p \in Procs : SolveEdit1(p, "ok")
    \/ \E p \in Procs, u \in Users, ch \in ChannelIds : ConfirmClose(p, u, ch)
    \/ \E p \in Procs : CloseIssue(p)
    \/ \E p \in Procs : CloseEdit(p, "ok")
    \/ \E p \in Procs, u \in Users, ch \in ChannelIds, pr \in Priorities :
          PriorityStart(p, u, ch, pr)
    \/ \E p \in Procs : PriorityIssue(p)
    \/ \E p \in Procs : PriorityEdit(p, "ok")

SpecPair == InitPair /\ [][NextPair]_vars

(* ------------- creations and closes, one after the other -------------- *)
(* Under SpecTurns the members of guild 1 submit the ticket form and staff *)
(* member 2 confirms closes, each handler running to its end before the    *)
(* next begins; the clock may move past the gate.                          *)
InitTurns == InitCommon /\ scope = Frame(FALSE, TurnsMaxCreates, TurnsMaxOps, TurnsMaxTicks)

NextTurns ==
    \/ \E p \in Procs, u \in Users, told \in BOOLEAN : CreateChecks(p, 1, u, 1, 0, told)
    \/ \E p \in Procs : CreateResp(p, "ok")
    \/ \E p \in Procs : CreateIntro(p, TRUE)
    \/ \E p \in Procs, ch \in ChannelIds : ConfirmClose(p, 2, ch)
    \/ \E p \in Procs : CloseIssue(p)
    \/ \E p \in Procs, o \in EditOutcomes : CloseEdit(p, o)
    \/ \E ch \in ChannelIds, ok \in BOOLEAN : DeleteLater(ch, ok)
    \/ \E d \in TickSteps : Tick(d)

SpecTurns == InitTurns /\ [][NextTurns]_vars

(* ------------- create calls that are all answered in time ------------- *)
(* SpecQueue has the on_submit calls of two guilds and a platform that     *)
(* answers every create_text_channel call, with a channel or an error.     *)
InitQueue == InitCommon /\ scope = Frame(TRUE, QueueMaxCreates, 0, 0)

NextQueue ==
    \/ \E p \in Procs, g \in Guilds, u \in Users, told \in BOOLEAN :
          CreateChecks(p, g, u, 1, 0, told)
    \/ \E p \in Procs, o \in {"ok", "http", "ratelimited"} : CreateResp(p, o)
    \/ \E p \in Procs, sent \in BOOLEAN : CreateIntro(p, sent)

SpecQueue ==
    /\ InitQueue
    /\ [][NextQueue]_vars
    /\ WF_vars(\E p \in Procs, o \in {"ok", "http", "ratelimited"} : CreateResp(p, o))

(* ---------------------------- the dashboard --------------------------- *)
(* One browser session sends requests to the dashboard; the bot is idle.   *)
(* A request carries the session cookie and the form fields chosen by      *)
(* whoever made the browser send it.  ops counts the requests.             *)

\* request.form.get("csrf_token"): a token, empty, or None when the field
\* is missing
FormTokens == {"t1", "t2", "", None}

\* the wrapper calls the view: session.get("user") is neither None nor empty
login_required(user) == user \notin {None, ""}

\* create_app(): the credentials are read from the environment; os.getenv
\* gives None for a variable that is unset
create_app(username, password) ==
    /\ ~app.up
    /\ app' = [up |-> TRUE, DASHBOARD_USERNAME |-> username,
               DASHBOARD_PASSWORD |-> password]
    /\ UNCHANGED <<tickets, messages, channels, createLock, dbWriter, gates, cooldowns, now,
                 proc, delTasks, creates, ticks, scope,
                 ops, session, settings, reply>>

\* POST /stats: the login form; token is what secrets.token_hex returns
stats(username, password, token) ==
    /\ app.up
    /\ ops < scope.ops
    /\ ops' = ops + 1
    /\ IF username = app.DASHBOARD_USERNAME /\ password = app.DASHBOARD_PASSWORD
       THEN /\ session' = [user |-> username, csrf_token |-> token]
            /\ reply' = "302 signed in"
       ELSE /\ session' = session
            /\ reply' = IF login_required(session.user) THEN "200 index" ELSE "200 login"
    /\ UNCHANGED <<tickets, messages, channels, createLock, dbWriter, gates, cooldowns, now,
                 proc, delTasks, creates, ticks, scope,
                 app, settings>>

\* GET /logout: session.clear()
logout ==
    /\ app.up
    /\ ops < scope.ops
    /\ ops' = ops + 1
    /\ session' = [user |-> None, csrf_token |-> None]
    /\ reply' = "302 stats"
    /\ UNCHANGED <<tickets, messages, channels, createLock, dbWriter, gates, cooldowns, now,
                 proc, delTasks, creates, ticks, scope,
                 app, settings>>

\* faulty variant: the token not looked at
require_csrf_off(token, form_token) == TRUE

\* require_csrf() returns instead of aborting with 400
require_csrf(token, form_token) ==
    token \notin {None, ""} /\ form_token \notin {None, ""} /\ token = form_token

\* a POST of a view under @login_required that begins with require_csrf():
\* written is what the tables are after the view's statements and the
\* commit of teardown_request
Post(form_token, written) ==
    /\ app.up
    /\ ops < scope.ops
    /\ ops' = ops + 1
    /\ IF ~login_required(session.user) THEN
           /\ settings' = settings
           /\ reply' = "302 login"
       ELSE IF ~require_csrf(session.csrf_token, form_token) THEN
           /\ settings' = settings
           /\ reply' = "400"
       ELSE
           /\ settings' = written
           /\ reply' = "302 guild"
    /\ UNCHANGED <<tickets, messages, channels, createLock, dbWriter, gates, cooldowns, now,
                 proc, delTasks, creates, ticks, scope,
                 app, session>>

\* INSERT OR IGNORE INTO config, then the UPDATE when a value was given
guild_update_config(guild_id, form_token, panel_title) ==
    LET rows == IF \E r \in settings.config : r.guild_id = guild_id
                THEN settings.config
                ELSE settings.config \cup {[guild_id |-> guild_id, panel_title |-> None]}
        updated == {IF r.guild_id = guild_id /\ panel_title # ""
                    THEN [r EXCEPT !.panel_title = panel_title] ELSE r : r \in rows}
    IN  Post(form_token, [settings EXCEPT !.config = updated])

add_category(guild_id, form_token, name) ==
    Post(form_token,
         IF name = "" THEN settings
         ELSE [settings EXCEPT !.categories =
                  Append(@, [guild_id |-> guild_id, name |-> name, active |-> 1])])

\* UPDATE categories SET active = 0 WHERE id = ?
remove_category(category_id, form_token) ==
    Post(form_token,
         IF category_id \in 1 .. Len(settings.categories)
         THEN [settings EXCEPT !.categories[category_id].active = 0]
         ELSE settings)

\* name stands for the two fields the view demands, name and label
add_field(category_id, form_token, name) ==
    Post(form_token,
         IF name = "" THEN settings
         ELSE [settings EXCEPT !.fields =
                  Append(@, [category_id |-> category_id, name |-> name, deleted |-> FALSE])])

\* DELETE FROM fields WHERE id = ?  (ids are AUTOINCREMENT, never given again)
remove_field(field_id, form_token) ==
    Post(form_token,
         IF field_id \in 1 .. Len(settings.fields)
         THEN [settings EXCEPT !.fields[field_id].deleted = TRUE]
         ELSE settings)

\* one of the five writing requests, with csrf_token = form_token
WritingRequest(form_token) ==
    \/ \E gid \in Guilds, title \in {"", "Help"} : guild_update_config(gid, form_token, title)
    \/ \E gid \in Guilds, name \in {"", "Billing"} : add_category(gid, form_token, name)
    \/ \E cid \in 1 .. 2 : remove_category(cid, form_token)
    \/ \E cid \in 1 .. 2, name \in {"", "order"} : add_field(cid, form_token, name)
    \/ \E fid \in 1 .. 2 : remove_field(fid, form_token)

InitDash == InitCommon /\ scope = Frame(TRUE, 0, DashMaxRequests, 0)

NextDash ==
    \/ \E u \in {None, "", "admin"}, pw \in {None, "", "pw"} : create_app(u, pw)
    \/ \E u \in {"", "admin", "eve"}, pw \in {"", "pw", "guess"}, tok \in {"t1", "t2"} :
          stats(u, pw, tok)
    \/ logout
    \/ \E tok \in FormTokens : WritingRequest(tok)

SpecDash == InitDash /\ [][NextDash]_vars

(* ============================ properties ============================== *)
Started(p) == CanStart(p) /\ proc'[p] # proc[p] /\ proc'[p].op # "idle"

Rank(status) ==
    CASE status = "open" -> 0
      [] status = "pending_close" -> 1
      [] status = "closed" -> 2

CreateCallPending(p) == proc[p].pc \in {"c_create1", "c_create2"}

\* a step in which p's create_text_channel call ends and no channel has come
\* into being
CreateCallFailed(p) ==
    /\ CreateCallPending(p)
    /\ proc'[p] # proc[p]
    /\ Len(channels') = Len(channels)

(* C1: creation is all-or-nothing.  Every ticket row carries the id of a   *)
(* channel that was created, and a step in which a create_text_channel     *)
(* call fails (rate limit, HTTP error on the first or on the fallback      *)
(* call) leaves the tickets table as it was.                               *)
C1_CreateAllOrNothing ==
    [][ /\ \A i \in 1 .. Len(tickets') :
            /\ tickets'[i].channel_id # NULL
            /\ tickets'[i].channel_id \in 1 .. Len(channels')
        /\ \A p \in Procs : CreateCallFailed(p) => tickets' = tickets
      ]_vars

\* one creation has inserted its row, another has failed on both calls
C1_Witness ==
    /\ Len(tickets) = 1
    /\ tickets[1].channel_id = 1
    /\ \E p \in Procs : proc[p].op = "create" /\ proc[p].res = "raised"

(* C2: the stored status of a ticket never moves backwards along           *)
(* open -> pending_close -> closed, under every interleaving of            *)
(* mark_solved, confirm_close, the priority callback and reconcile; in     *)
(* particular a closed ticket stays closed.                                *)
C2_StatusMonotonic ==
    [][ \A i \in 1 .. Len(tickets) :
            Rank(tickets'[i].status) >= Rank(tickets[i].status) ]_vars

\* a ticket was closed while the mark_solved that made it pending is still
\* busy with its channel edits
C2_Witness ==
    \E p \in Procs :
        /\ proc[p].op = "solve"
        /\ proc[p].pc \in {"s_notify", "s_edit1", "s_edit2"}
        /\ tickets[proc[p].t].status = "closed"

(* C3: within a guild the ticket numbers handed out are strictly           *)
(* increasing in the order of insertion, and no two tickets that are both  *)
(* non-closed carry the same number.                                       *)
C3_NumbersIncreaseNoDuplicate ==
    \A i, j \in TicketIds :
        (i < j /\ tickets[i].guild_id = tickets[j].guild_id) =>
            /\ tickets[i].ticket_number < tickets[j].ticket_number
            /\ (tickets[i].status # "closed" /\ tickets[j].status # "closed")
                   => tickets[i].ticket_number # tickets[j].ticket_number

Reserved(p) ==
    /\ proc[p].op = "create"
    /\ proc[p].pc \in {"c_wait1", "c_create1", "c_wait2", "c_create2", "c_intro"}

(* C4: two creations under way in a guild that had no non-closed ticket    *)
(* when the first of them reserved hold the numbers 1 and 2, never 1 and   *)
(* 1.                                                                      *)
C4_ConcurrentReservationsDiffer ==
    \A p, q \in Procs :
        ( /\ p # q
          /\ Reserved(p) /\ Reserved(q)
          /\ proc[p].g = proc[q].g
          /\ \A i \in TicketIds :
                tickets[i].guild_id = proc[p].g => i \in {proc[p].tid, proc[q].tid} )
        => {proc[p].num, proc[q].num} = {1, 2}

\* the edit p issued is what the channel shows after the step
EditShown(p, lockOpener) ==
    channels'[proc[p].ch] =
        EditedChannel(channels[proc[p].ch], proc[p].ename, proc[p].etopic, lockOpener)

(* C5: confirm_close writes the store only in the step in which its        *)
(* channel edit answered with success: then the edit is on the channel,    *)
(* the row gets status closed, closed_at and admin_closer_id, and one      *)
(* deletion is scheduled.  In every other step of confirm_close (its       *)
(* start, the issue of the edit, an edit that failed or timed out) the     *)
(* tickets table and the scheduled deletions stay as they were; and        *)
(* nothing else ever writes admin_closer_id.                               *)
C5_CloseWritesAfterExternalSuccess ==
    [][ /\ \A p \in Procs :
            /\ (Started(p) /\ proc'[p].op = "close")
                   => (tickets' = tickets /\ delTasks' = delTasks)
            /\ (proc[p].pc = "k_defer" /\ proc'[p] # proc[p])
                   => (tickets' = tickets /\ delTasks' = delTasks)
            /\ (proc[p].pc = "k_edit" /\ proc'[p] # proc[p]) =>
                   IF proc'[p].res = "ok"
                   THEN /\ EditShown(p, TRUE)
                        /\ proc[p].edits = 1
                        /\ tickets' = [tickets EXCEPT ![proc[p].t].status = "closed",
                                                      ![proc[p].t].closed_at = now,
                                                      ![proc[p].t].admin_closer_id = proc[p].u]
                        /\ delTasks' = [delTasks EXCEPT ![proc[p].ch] = @ + 1]
                   ELSE tickets' = tickets /\ delTasks' = delTasks
        /\ \A i \in 1 .. Len(tickets) :
            tickets'[i].admin_closer_id # tickets[i].admin_closer_id =>
                \E p \in Procs : /\ proc[p].pc = "k_edit"
                                 /\ proc[p].t = i
                                 /\ proc'[p].res = "ok"
      ]_vars

\* a confirm_close whose edit failed has ended: its ticket is not closed and
\* no deletion is scheduled
C5_Witness ==
    \E p \in Procs :
        /\ proc[p].op = "close"
        /\ proc[p].res = "retry_later"
        /\ tickets[proc[p].t].status # "closed"
        /\ tickets[proc[p].t].closed_at = NULL
        /\ \A ch \in ChannelIds : delTasks[ch] = 0

(* C6: when the channel edit of the priority callback or of confirm_close  *)
(* fails or exceeds its time bound the handler reports the failure and     *)
(* the ticket's stored priority and status are what they were; the         *)
(* priority column changes only in the step in which the callback's edit   *)
(* answered with success, to the priority asked for.                       *)
C6_FailedEditLeavesPriorityAndStatus ==
    [][ /\ \A p \in Procs :
            (proc[p].pc \in {"p_edit", "k_edit"} /\ proc'[p] # proc[p]
                /\ proc'[p].res # "ok") =>
                /\ proc'[p].res \in {"retry_later", "raised"}
                /\ \A i \in 1 .. Len(tickets) :
                      /\ tickets'[i].priority = tickets[i].priority
                      /\ tickets'[i].status = tickets[i].status
        /\ \A i \in 1 .. Len(tickets) :
            tickets'[i].priority # tickets[i].priority =>
                \E p \in Procs : /\ proc[p].pc = "p_edit"
                                 /\ proc[p].t = i
                                 /\ proc'[p].res = "ok"
                                 /\ EditShown(p, FALSE)
                                 /\ tickets'[i].priority = proc[p].pr
      ]_vars

\* a priority change whose edit failed has ended: the ticket is as created
C6_Witness ==
    \E p \in Procs :
        /\ proc[p].op = "prio"
        /\ proc[p].res = "retry_later"
        /\ tickets[proc[p].t].priority = "Low"
        /\ tickets[proc[p].t].status = "open"

\* what the handlers have written to the channels so far is left alone
NoExternalMutation(p) == channels' = channels /\ proc'[p].edits = 0

(* C7: whenever no handler is under way, every ticket stored as closed     *)
(* whose channel still exists shows the close on that channel: the solved  *)
(* glyph in front of the name, the closed topic, and the opener without    *)
(* write access.                                                           *)
CloseShown(c) ==
    /\ StartsWith(c.name, GlyphSolved \o <<"-">>)
    /\ c.topic = TopicClosed
    /\ ~c.openerWrite

C7_ClosedTicketShowsClose ==
    (\A q \in Procs : Quiet(q)) =>
        \A i \in TicketIds :
            (tickets[i].status = "closed" /\ ChanPresent(channels, tickets[i].channel_id))
                => CloseShown(channels[tickets[i].channel_id])

(* C8: mark_solved by anybody but the ticket's opener, staff and admins    *)
(* included, ends at once with a permission error, edits no channel and    *)
(* leaves the tickets table as it was.                                     *)
C8_NonOpenerCannotMarkSolved ==
    [][ \A p \in Procs :
            ( /\ Started(p)
              /\ proc'[p].op = "solve"
              /\ proc'[p].t # 0
              /\ tickets[proc'[p].t].opener_id # proc'[p].u ) =>
                /\ proc'[p].pc = "done"
                /\ proc'[p].res = "perm_denied"
                /\ tickets' = tickets
                /\ NoExternalMutation(p)
      ]_vars

\* an admin or staff member was refused on an open ticket of somebody else
C8_Witness ==
    \E p \in Procs :
        /\ proc[p].op = "solve"
        /\ proc[p].res = "perm_denied"
        /\ is_admin(proc[p].u) \/ is_staff(proc[p].u)
        /\ tickets[proc[p].t].status = "open"

(* C9: confirm_close and mark_solved begun on a ticket stored as closed    *)
(* end at once with a report (already closed, or the permission error for  *)
(* an actor without standing), edit no channel, schedule no deletion and   *)
(* leave the tickets table as it was.                                      *)
C9_ClosedTicketIsNoOp ==
    [][ \A p \in Procs :
            ( /\ Started(p)
              /\ proc'[p].op \in {"close", "solve"}
              /\ proc'[p].t # 0
              /\ tickets[proc'[p].t].status = "closed" ) =>
                /\ proc'[p].pc = "done"
                /\ proc'[p].res =
                      IF proc'[p].op = "close"
                      THEN (IF CloseAllowed(proc'[p].u) THEN "already_closed"
                            ELSE "perm_denied")
                      ELSE (IF tickets[proc'[p].t].opener_id = proc'[p].u
                            THEN "already_closed" ELSE "perm_denied")
                /\ tickets' = tickets
                /\ delTasks' = delTasks
                /\ NoExternalMutation(p)
      ]_vars

\* a second confirm_close came after the close and before the deletion
C9_Witness ==
    \E p \in Procs :
        /\ proc[p].op = "close"
        /\ proc[p].res = "already_closed"
        /\ tickets[proc[p].t].status = "closed"
        /\ tickets[proc[p].t].admin_closer_id # NULL
        /\ delTasks[tickets[proc[p].t].channel_id] = 1

(* C10: mark_solved by the opener on a ticket that is not closed stores    *)
(* pending_close and changes nothing else of the row, and none of its      *)
(* later steps (the notices, the edits, whatever they answer) writes the   *)
(* tickets table.                                                          *)
C10_SolvedStoredRegardless ==
    [][ \A p \in Procs :
            /\ ( /\ Started(p)
                 /\ proc'[p].op = "solve"
                 /\ proc'[p].t # 0
                 /\ tickets[proc'[p].t].opener_id = proc'[p].u
                 /\ tickets[proc'[p].t].status # "closed" ) =>
                    tickets' = [tickets EXCEPT ![proc'[p].t].status = "pending_close"]
            /\ (proc[p].pc \in {"s_notify", "s_edit1", "s_edit2"} /\ proc'[p] # proc[p])
                    => tickets' = tickets
      ]_vars

\* the handler that ended last was a priority callback on ticket t asking
\* for pr, and it ended with one of the reports in rs
LastPriorityCall(t, pr, rs) ==
    \E q \in Procs :
        /\ proc[q].pc = "done"
        /\ proc[q].op = "prio"
        /\ proc[q].t = t
        /\ proc[q].pr = pr
        /\ proc[q].res \in rs
        /\ proc[q].edits <= 1

\* the callback beginning in slot p is refused, or has read a priority equal
\* to the one asked for; it has written and edited nothing
BeginsAsNoOp(p) ==
    /\ proc'[p].edits = 0
    /\ tickets' = tickets
    /\ channels' = channels
    /\ \/ proc'[p].pc = "done" /\ proc'[p].res = "perm_denied"
       \/ proc'[p].pc = "p_defer" /\ PriorityUnchanged(proc'[p].spr, proc'[p].pr)

\* a callback that has read a priority equal to the one asked for ends with
\* "already set", without an edit and without a write
EndsAsNoOp(p) ==
    (proc[p].pc = "p_defer" /\ proc'[p] # proc[p]
        /\ PriorityUnchanged(proc[p].spr, proc[p].pr)) =>
            /\ proc'[p].pc = "done"
            /\ proc'[p].res = "noop"
            /\ proc'[p].edits = 0
            /\ tickets' = tickets
            /\ channels' = channels

(* C11 as stated: a priority callback that directly follows a callback for *)
(* the same ticket and the same priority, however that one ended, is a     *)
(* pure no-op, so that the two issue at most one edit.                     *)
C11_SecondCallAlwaysNoOp ==
    [][ \A p \in Procs :
            /\ ( /\ Started(p)
                 /\ proc'[p].op = "prio"
                 /\ proc'[p].t # 0
                 /\ LastPriorityCall(proc'[p].t, proc'[p].pr,
                                     {"ok", "noop", "retry_later", "raised"}) )
                   => BeginsAsNoOp(p)
            /\ EndsAsNoOp(p)
      ]_vars

(* C11 amended: a priority callback that directly follows a callback for   *)
(* the same ticket and the same priority which succeeded (its edit         *)
(* reported success and the priority was stored, or the priority was       *)
(* stored already) is a pure no-op: no edit, no write; the two calls       *)
(* issue at most one edit.                                                 *)
C11_SecondCallAfterSuccessNoOp ==
    [][ \A p \in Procs :
            /\ ( /\ Started(p)
                 /\ proc'[p].op = "prio"
                 /\ proc'[p].t # 0
                 /\ LastPriorityCall(proc'[p].t, proc'[p].pr, {"ok", "noop"}) )
                   => BeginsAsNoOp(p)
            /\ EndsAsNoOp(p)
      ]_vars

\* the second of two calls for High has ended as a no-op
C11_Witness ==
    \E p \in Procs :
        /\ proc[p].pc = "done"
        /\ proc[p].op = "prio"
        /\ proc[p].res = "noop"
        /\ proc[p].pr = "High"
        /\ proc[p].edits = 0
        /\ tickets[proc[p].t].priority = "High"

\* no row's status differs after the step
StatusKept == \A i \in 1 .. Len(tickets) : tickets'[i].status = tickets[i].status

(* C12: a priority callback asking for the priority its ticket has stored  *)
(* (letter case aside) issues no channel edit and leaves the tickets table *)
(* as it was: it ends with "already set" (or with the permission error).   *)
(* The slash command set_ticket_priority ends in its first step without    *)
(* edit or write.  No step of either handler changes a status.             *)
C12_SamePriorityIsNoOp ==
    [][ \A p \in Procs :
            /\ ( /\ Started(p)
                 /\ proc'[p].op = "prio"
                 /\ proc'[p].t # 0
                 /\ casefold(tickets[proc'[p].t].priority) = casefold(proc'[p].pr) )
                   => /\ proc'[p].edits = 0
                      /\ tickets' = tickets
                      /\ channels' = channels
                      /\ \/ proc'[p].pc = "done" /\ proc'[p].res = "perm_denied"
                         \/ /\ proc'[p].pc = "p_defer"
                            /\ proc'[p].spr = tickets[proc'[p].t].priority
            /\ ( /\ proc[p].pc = "p_defer"
                 /\ proc'[p] # proc[p]
                 /\ casefold(proc[p].spr) = casefold(proc[p].pr) )
                   => /\ proc'[p].pc = "done"
                      /\ proc'[p].res = "noop"
                      /\ proc'[p].edits = 0
                      /\ tickets' = tickets
                      /\ channels' = channels
            /\ (Started(p) /\ proc'[p].op = "slash")
                   => /\ proc'[p].pc = "done"
                      /\ proc'[p].edits = 0
                      /\ tickets' = tickets
                      /\ channels' = channels
            /\ ( \/ Started(p) /\ proc'[p].op \in {"prio", "slash"}
                 \/ proc[p].pc \in {"p_defer", "p_edit"} /\ proc'[p] # proc[p] )
                   => StatusKept
      ]_vars

\* a callback asking for Low on a ticket stored as Low has ended
C12_Witness ==
    \E p \in Procs :
        /\ proc[p].pc = "done"
        /\ proc[p].op = "prio"
        /\ proc[p].res = "noop"
        /\ proc[p].pr = "Low"
        /\ proc[p].edits = 0
        /\ tickets[proc[p].t].priority = "Low"

\* slot p's on_submit has ended in its first step with report r, having
\* reserved no number, created no channel and written no row
DeniedAtOnce(p, r) ==
    /\ proc'[p].pc = "done"
    /\ proc'[p].res = r
    /\ proc'[p].num = 0
    /\ createLock' = createLock
    /\ channels' = channels
    /\ tickets' = tickets
    /\ messages' = messages

(* C13: an on_submit that passes the gate registers the expiry now + 5 for *)
(* its guild and user; an on_submit of the same user in the same guild     *)
(* that begins less than 5 seconds after one that passed the gate is       *)
(* denied by the gate: no number is reserved, no channel created, no row   *)
(* inserted, and the gate's expiry stays as it was.                        *)
C13_SecondRequestInWindowDenied ==
    [][ \A p \in Procs :
            (Started(p) /\ proc'[p].op = "create") =>
                LET gk == gate_key(proc'[p].g, proc'[p].u)
                IN  IF gates[gk] # NULL
                       /\ now - (gates[gk] - OPEN_TICKET_GATE_SECONDS)
                              < OPEN_TICKET_GATE_SECONDS
                    THEN DeniedAtOnce(p, "denied_gate") /\ gates' = gates
                    ELSE /\ proc'[p].res # "denied_gate"
                         /\ gates' = [gates EXCEPT ![gk] = now + OPEN_TICKET_GATE_SECONDS]
      ]_vars

\* the on_submit beginning in slot p comes 61 seconds or more after the
\* cooldown of its guild, category and user was started
AfterCooldown(p) ==
    LET exp == cooldowns[cd_key(proc'[p].g, proc'[p].c, proc'[p].u)]
    IN  /\ exp # NULL
        /\ now - (exp - TICKET_OPEN_COOLDOWN_SECONDS) >= TICKET_OPEN_COOLDOWN_SECONDS + 1

NotDenied(p) == proc'[p].res \notin {"denied_gate", "denied_limit", "denied_cooldown"}

HasTicket(g, c, u) ==
    \E i \in 1 .. Len(tickets') :
        /\ tickets'[i].guild_id = g
        /\ tickets'[i].category_id = c
        /\ tickets'[i].opener_id = u

(* C15: wherever a cooldown expiry is registered for (g, c, u), a ticket   *)
(* row of opener u in guild g and category c has been inserted; and the    *)
(* cooldown map changes only in the last step of an on_submit that ends    *)
(* with success, for that on_submit's guild, category and user: a request  *)
(* that is denied or whose channel creation fails leaves the map as it     *)
(* was.                                                                    *)
C15_CooldownOnlyAfterCreation ==
    [][ /\ \A g \in Guilds, c \in Categories, u \in Users :
              cooldowns'[<<g, c, u>>] # NULL => HasTicket(g, c, u)
        /\ cooldowns' # cooldowns =>
              \E p \in Procs :
                  /\ proc[p].pc = "c_intro"
                  /\ proc'[p].pc = "done"
                  /\ proc'[p].res = "ok"
                  /\ cooldowns' =
                        [cooldowns EXCEPT ![<<proc[p].g, proc[p].c, proc[p].u>>] =
                                               now + TICKET_OPEN_COOLDOWN_SECONDS]
        /\ \A p \in Procs :
              (proc'[p] # proc[p] /\ proc'[p].op = "create" /\ proc'[p].pc = "done"
                  /\ proc'[p].res # "ok") => cooldowns' = cooldowns
      ]_vars

\* user 1 has a cooldown in category 2 of guild 1; a request of another user
\* ended on a rate limit and that user has no cooldown anywhere
C15_Witness ==
    /\ cooldowns[<<1, 2, 1>>] = 1 + TICKET_OPEN_COOLDOWN_SECONDS
    /\ \E p \in Procs :
          /\ proc[p].pc = "done"
          /\ proc[p].op = "create"
          /\ proc[p].res = "rate_limited"
          /\ proc[p].u # 1
          /\ \A g \in Guilds, c \in Categories : cooldowns[<<g, c, proc[p].u>>] = NULL

(* C16: an on_submit that meets an active gate, else an open-ticket count  *)
(* at the limit, else an active cooldown, or that finds the parent         *)
(* category full, ends in its first step with that reason: no create call  *)
(* is issued (the guild lock is not touched, no channel appears) and the   *)
(* tickets and messages tables stay as they were.  A step in which a       *)
(* create call fails leaves both tables as they were too.                  *)
C16_FailedPreconditionWritesNothing ==
    [][ \A p \in Procs :
            /\ (Started(p) /\ proc'[p].op = "create") =>
                  LET g == proc'[p].g
                      u == proc'[p].u
                      gexp == gates[<<g, u>>]
                      cexp == cooldowns[<<g, proc'[p].c, u>>]
                  IN  IF gexp # NULL /\ now < gexp
                      THEN DeniedAtOnce(p, "denied_gate")
                      ELSE IF UserOpenCount(g, u) >= OPEN_TICKETS_PER_USER_LIMIT
                      THEN DeniedAtOnce(p, "denied_limit")
                      ELSE IF cexp # NULL /\ now < cexp
                      THEN DeniedAtOnce(p, "denied_cooldown")
                      ELSE /\ NotDenied(p)
                           /\ proc'[p].res = "category_full"
                                 => DeniedAtOnce(p, "category_full")
            /\ CreateCallFailed(p) => (tickets' = tickets /\ messages' = messages)
      ]_vars

\* the on_submit calls of guild g whose create_text_channel call is in flight
CallsInFlight(g) == {p \in Procs : CreateCallPending(p) /\ proc[p].g = g}

(* C17: in every reachable state at most one create_text_channel call is   *)
(* in flight per guild, the fallback call without the glyph included, and  *)
(* the caller in flight is the holder of its guild's lock.                 *)
C17_OneCreateCallPerGuild ==
    \A g \in Guilds :
        /\ Cardinality(CallsInFlight(g)) <= 1
        /\ \A p \in CallsInFlight(g) : createLock[g].holder = p

\* one on_submit of guild 1 is in its fallback call while another of the
\* same guild waits for the lock
C17_Witness ==
    \E p, q \in Procs :
        /\ proc[p].pc = "c_create2"
        /\ proc[q].pc \in {"c_wait1", "c_wait2"}
        /\ proc[p].g = 1
        /\ proc[q].g = 1
        /\ createLock[1].waiters = <<q>>

(* C18: no failure of an external call leaves a handler as a raw           *)
(* exception.  A create_text_channel call that fails, first or fallback,   *)
(* ends in a report or in the fallback call; the notices of mark_solved    *)
(* and the channel edits of mark_solved, confirm_close and the priority    *)
(* handlers, whatever they answer, never make the handler raise (a store   *)
(* write refused because another connection holds the write lock is not    *)
(* an external-call failure and is left aside).                            *)
C18_ExternalFailuresAreHandled ==
    [][ \A p \in Procs :
            /\ CreateCallFailed(p) => proc'[p].res # "raised"
            /\ (proc[p].pc \in {"s_notify", "s_edit1", "s_edit2"} /\ proc'[p] # proc[p])
                  => proc'[p].res # "raised"
            /\ (proc[p].pc \in {"k_edit", "p_edit"} /\ proc'[p] # proc[p] /\ DbFree(p))
                  => proc'[p].res # "raised"
      ]_vars

EditingOps == {"solve", "close", "prio", "slash"}

C20_CreateAlwaysReturns ==
    \A p \in Procs :
        (proc[p].op = "create" /\ ~Quiet(p)) ~> Quiet(p)

\* the tickets table after a reconcile of guild g without close_all: the
\* non-closed rows of g whose channel is gone are closed as of now
ClosedMissing(g) ==
    [i \in 1 .. Len(tickets) |->
        IF /\ tickets[i].guild_id = g
           /\ tickets[i].status # "closed"
           /\ ~ChanPresent(channels, tickets[i].channel_id)
        THEN [tickets[i] EXCEPT !.status = "closed", !.closed_at = now]
        ELSE tickets[i]]

\* a step of a reconcile of guild g touches rows and channels of g only, and
\* a row it touches becomes closed
OnlyGuild(g) ==
    /\ Len(tickets') = Len(tickets)
    /\ \A i \in 1 .. Len(tickets) :
          tickets'[i] # tickets[i] =>
              /\ tickets[i].guild_id = g
              /\ tickets[i].status # "closed"
              /\ tickets'[i].status = "closed"
    /\ \A ch \in ChannelIds :
          channels'[ch] # channels[ch] => channels[ch].guild = g

(* C21: reconcile_tickets run by an admin in guild g without close_all     *)
(* closes the non-closed tickets of g whose channel is gone and leaves     *)
(* every other row and every channel as it was; with close_all a reconcile *)
(* that has ended has closed every row it selected; no step of a reconcile *)
(* of g changes a row or a channel of another guild.                       *)
C21_ReconcileClosesMissing ==
    [][ \A p \in Procs :
            /\ \A u \in Users, g \in Guilds, ca \in BOOLEAN, dc \in BOOLEAN :
                  (ReconcileStart(p, u, g, ca, dc) /\ is_admin(u)) =>
                      /\ OnlyGuild(g)
                      /\ channels' = channels
                      /\ ~ca => tickets' = ClosedMissing(g)
            /\ (proc[p].pc \in {"r_send", "r_delete"} /\ proc'[p] # proc[p]) =>
                      /\ OnlyGuild(proc[p].g)
                      /\ proc'[p].pc = "done" =>
                            \A j \in 1 .. Len(proc[p].rows) :
                                tickets'[proc[p].rows[j]].status = "closed"
      ]_vars

\* the name is one glyph, "-", and a rest that does not begin with a glyph
\* and "-" again
OneGlyphPrefix(name) ==
    \E g \in KnownGlyphs :
        /\ StartsWith(name, g \o <<"-">>)
        /\ LET rest == SubSeq(name, Len(g) + 2, Len(name))
           IN  \A h \in KnownGlyphs : ~StartsWith(rest, h \o <<"-">>)

(* C22: the name a handler computes replaces the glyph in front, so that   *)
(* no prefixes pile up: every name issued in an edit by the priority       *)
(* handlers, mark_solved or confirm_close, and so the name of every ticket *)
(* channel after any sequence of such edits, carries exactly one glyph     *)
(* prefix.                                                                 *)
C22_NameCarriesOneGlyph ==
    /\ \A ch \in ChannelIds : OneGlyphPrefix(channels[ch].name)
    /\ \A p \in Procs :
          proc[p].pc \in {"s_edit1", "k_edit", "p_edit"} => OneGlyphPrefix(proc[p].ename)

(* C23: the priority callback computes its edit from the status it read:   *)
(* for pending_close or closed the name begins with the solved glyph and   *)
(* the topic is the solved topic of that status, whatever priority was     *)
(* asked for; for open the name begins with the glyph of the priority      *)
(* asked for and the topic names it.  When the edit answers with success   *)
(* the priority asked for is stored, also on a pending or closed ticket.   *)
C23_SolvedDisplayForced ==
    [][ \A p \in Procs :
            /\ (Started(p) /\ proc'[p].op = "prio" /\ proc'[p].pc = "p_defer")
                  => proc'[p].st = tickets[proc'[p].t].status
            /\ (proc[p].op = "prio" /\ proc[p].pc = "p_defer" /\ proc'[p].pc = "p_edit") =>
                  /\ proc'[p].edits = 1
                  /\ IF proc[p].st \in {"pending_close", "closed"}
                     THEN /\ StartsWith(proc'[p].ename, GlyphSolved \o <<"-">>)
                          /\ proc'[p].etopic = (IF proc[p].st = "pending_close"
                                                THEN TopicPending ELSE TopicClosed)
                     ELSE /\ StartsWith(proc'[p].ename, priority_emoji(proc[p].pr) \o <<"-">>)
                          /\ proc'[p].etopic = TopicPriority(proc[p].pr)
            /\ (proc[p].op = "prio" /\ PriorityEdit(p, "ok"))
                  => tickets'[proc[p].t].priority = proc[p].pr
      ]_vars

\* the channels SpecShut starts with
ShutChannels == 1 .. 2

\* a deletion task for channel ch has been created and has not run yet
DeletionPending(ch) == ch \in ChannelIds /\ delTasks[ch] > 0

(* C24: the step in which confirm_close ends with success stores closed    *)
(* and creates one deletion task for the ticket's channel; every deletion  *)
(* task created is eventually run, that is, the deletion is attempted; and *)
(* the attempt, failed or not, leaves the tickets and messages tables as   *)
(* they were (a failed one leaves the channels too), so the ticket stays   *)
(* closed.                                                                 *)
C24_DeletionEventuallyAttempted ==
    /\ [][ /\ \A p \in Procs :
                (proc[p].pc = "k_edit" /\ proc'[p] # proc[p] /\ proc'[p].res = "ok") =>
                    /\ tickets'[proc[p].t].status = "closed"
                    /\ delTasks'[proc[p].ch] = delTasks[proc[p].ch] + 1
           /\ \A ch \in ChannelIds, ok \in BOOLEAN :
                DeleteLater(ch, ok) =>
                    /\ tickets' = tickets
                    /\ messages' = messages
                    /\ ~ok => channels' = channels
         ]_vars
    /\ \A ch \in ShutChannels :
          DeletionPending(ch) ~> ~DeletionPending(ch)

\* a ticket was closed by confirm_close, the deletion of its channel was
\* attempted and failed: the channel is there and the ticket is closed
C24_Witness ==
    \E i \in TicketIds :
        /\ tickets[i].status = "closed"
        /\ tickets[i].admin_closer_id # NULL
        /\ delTasks[tickets[i].channel_id] = 0
        /\ ChanPresent(channels, tickets[i].channel_id)
        /\ \A q \in Procs : Quiet(q)

\* slot p's on_submit has got its number in this step
HasReserved(p) ==
    /\ Started(p)
    /\ proc'[p].op = "create"
    /\ proc'[p].pc \in {"c_create1", "c_wait1"}

(* C25: the number an on_submit gets from reserve_open_ticket_number is    *)
(* one more than the number of non-closed rows of its own guild at that    *)
(* moment, whatever rows other guilds have, and getting it leaves the      *)
(* tickets and messages tables as they were.                               *)
C25_ReserveCountsOwnGuild ==
    [][ \A p \in Procs :
            HasReserved(p) =>
                /\ proc'[p].num =
                      Cardinality({i \in 1 .. Len(tickets) :
                                      /\ tickets[i].guild_id = proc'[p].g
                                      /\ tickets[i].status # "closed"}) + 1
                /\ tickets' = tickets
                /\ messages' = messages
      ]_vars

\* with one open ticket in its guild and one in the other guild an
\* on_submit has got number 2
C25_Witness ==
    \E p \in Procs :
        /\ proc[p].op = "create"
        /\ proc[p].pc = "c_create1"
        /\ proc[p].num = 2
        /\ Len(tickets) = 2
        /\ tickets[1].guild_id # tickets[2].guild_id
        /\ tickets[1].status = "open"
        /\ tickets[2].status = "open"

(* C26: an on_submit that begins while another connection holds an         *)
(* uncommitted write ends with a failure reported to the user, not with a  *)
(* raw exception; it issues no create call, and no channel and no row      *)
(* come into being.                                                        *)
C26_ReserveConflictReported ==
    [][ \A p \in Procs :
            (Started(p) /\ proc'[p].op = "create" /\ ~DbFree(p)) =>
                /\ proc'[p].pc = "done"
                /\ proc'[p].res # "raised"
                /\ createLock' = createLock
                /\ channels' = channels
                /\ tickets' = tickets
      ]_vars

(* C27: when the introductory message cannot be posted the handler goes on *)
(* all the same: the ticket row stays as it is (with its channel,          *)
(* first_message_id unset), the submission is logged and the cooldown is   *)
(* started.  first_message_id is written only in the step in which an      *)
(* on_submit learns that its introductory message was posted.              *)
C27_IntroIsBestEffort ==
    [][ /\ \A p \in Procs :
              CreateIntro(p, FALSE) =>
                  /\ tickets' = tickets
                  /\ tickets[proc[p].tid].channel_id = proc[p].ch
                  /\ tickets[proc[p].tid].first_message_id = NULL
                  /\ cooldowns'[<<proc[p].g, proc[p].c, proc[p].u>>]
                        = now + TICKET_OPEN_COOLDOWN_SECONDS
                  /\ proc'[p].res = "ok"
        /\ \A i \in 1 .. Len(tickets) :
              tickets'[i].first_message_id # tickets[i].first_message_id =>
                  \E p \in Procs : proc[p].tid = i /\ CreateIntro(p, TRUE)
      ]_vars

\* the columns written by the INSERT of on_submit and by no UPDATE
FrozenColumns ==
    {"ticket_number", "guild_id", "opener_id", "channel_id", "category_id", "created_at"}

(* C28: no step removes or moves a ticket row (a row's id is its place in  *)
(* the table), and no step of mark_solved, confirm_close, the priority     *)
(* handlers, reconcile, the deletion tasks or on_message changes a row's   *)
(* channel_id, guild_id, opener_id, category_id, ticket_number or          *)
(* created_at.                                                             *)
C28_IdentityColumnsFrozen ==
    [][ /\ Len(tickets') >= Len(tickets)
        /\ \A i \in 1 .. Len(tickets) :
              \A col \in FrozenColumns : tickets'[i][col] = tickets[i][col]
      ]_vars

\* a ticket has been through a priority change and a close by reconcile, and
\* a message was logged for it
C28_Witness ==
    \E i \in TicketIds :
        /\ tickets[i].status = "closed"
        /\ tickets[i].closed_at # NULL
        /\ tickets[i].admin_closer_id = NULL
        /\ tickets[i].priority = "High"
        /\ tickets[i].channel_id = i
        /\ tickets[i].created_at = 1
        /\ \E m \in 1 .. Len(messages) :
              messages[m].ticket_id = i /\ messages[m].discord_message_id # NULL

ShowsSolved(c) ==
    /\ StartsWith(c.name, GlyphSolved \o <<"-">>)
    /\ c.topic \in {TopicPending, TopicClosed}

ShowsPriority(c, pr) ==
    /\ StartsWith(c.name, priority_emoji(pr) \o <<"-">>)
    /\ c.topic = TopicPriority(pr)

(* C29: when two transitions on one ticket whose edits all succeeded have  *)
(* both ended, the channel agrees with the row: it shows the solved glyph  *)
(* and a solved topic when the stored status is pending_close or closed,   *)
(* and the glyph and topic of the stored priority when it is open.         *)
C29_DisplayAgreesWithStore ==
    (\A q \in Procs : Quiet(q)) =>
        \A i \in TicketIds :
            LET c == channels[tickets[i].channel_id]
            IN  IF tickets[i].status \in {"pending_close", "closed"}
                THEN ShowsSolved(c)
                ELSE ShowsPriority(c, tickets[i].priority)

(* C30: set_ticket_priority run by an admin in a ticket channel reports    *)
(* "already" and changes nothing when the priority asked for is the stored *)
(* one; otherwise it issues the channel edit and, when the edit answers    *)
(* with success, stores the new priority.                                  *)
C30_SlashSetsPriority ==
    [][ \A p \in Procs :
            /\ ( /\ Started(p)
                 /\ proc'[p].op = "slash"
                 /\ is_admin(proc'[p].u)
                 /\ proc'[p].t # 0 ) =>
                    /\ tickets' = tickets
                    /\ channels' = channels
                    /\ IF casefold(tickets[proc'[p].t].priority) = casefold(proc'[p].pr)
                       THEN proc'[p].pc = "done" /\ proc'[p].res = "noop"
                       ELSE proc'[p].pc = "p_edit" /\ proc'[p].edits = 1
            /\ (proc[p].op = "slash" /\ PriorityEdit(p, "ok"))
                    => tickets'[proc[p].t].priority = proc[p].pr
      ]_vars


(* C31: confirm_close begun by an actor who is neither staff nor admin,    *)
(* and the priority callback begun on a ticket by an actor who is neither  *)
(* its opener nor staff nor admin, end at once with the permission error:  *)
(* no channel is edited, no deletion is scheduled and the tickets table    *)
(* is as it was.                                                           *)
C31_UnauthorisedActorsRejected ==
    [][ \A p \in Procs :
            ( /\ Started(p)
              /\ ~is_admin(proc'[p].u) /\ ~is_staff(proc'[p].u)
              /\ \/ proc'[p].op = "close"
                 \/ /\ proc'[p].op = "prio"
                    /\ proc'[p].t # 0
                    /\ tickets[proc'[p].t].opener_id # proc'[p].u ) =>
                /\ proc'[p].pc = "done"
                /\ proc'[p].res = "perm_denied"
                /\ tickets' = tickets
                /\ delTasks' = delTasks
                /\ NoExternalMutation(p)
      ]_vars

\* member 1, who is the opener of ticket 1 and nothing else, was refused as
\* setter of the priority of ticket 2 while a handler begun before is still
\* under way; ticket 2 is as it was created
C31_Witness ==
    /\ Len(tickets) = 2
    /\ ~Quiet(1)
    /\ proc[2].op = "prio" /\ proc[2].res = "perm_denied" /\ proc[2].u = 1
    /\ proc[2].t = 2
    /\ tickets[2] = StartTicket(<<1, 1>>, 2)

(* C32: with the on_submit calls running one after the other, no member    *)
(* ever has more than OPEN_TICKETS_PER_USER_LIMIT non-closed tickets in a  *)
(* guild: an on_submit that finds the member's count at the limit is       *)
(* refused in its first step (by the gate, when that is still active, else *)
(* by the limit) and inserts nothing.                                      *)
C32_OpenTicketLimit ==
    [][ /\ \A g \in Guilds, u \in Users :
              UserOpenCount(g, u)' <= OPEN_TICKETS_PER_USER_LIMIT
        /\ \A p \in Procs :
              ( /\ Started(p)
                /\ proc'[p].op = "create"
                /\ UserOpenCount(proc'[p].g, proc'[p].u) >= OPEN_TICKETS_PER_USER_LIMIT ) =>
                  \/ DeniedAtOnce(p, "denied_gate")
                  \/ DeniedAtOnce(p, "denied_limit")
      ]_vars

C34_CloseWrittenOnce ==
    [][ /\ \A i \in TicketIds :
              tickets[i].closed_at # NULL =>
                  /\ tickets'[i].closed_at = tickets[i].closed_at
                  /\ tickets'[i].admin_closer_id = tickets[i].admin_closer_id
        /\ \A ch \in ChannelIds :
              delTasks'[ch] > delTasks[ch] =>
                  /\ TicketByChannel(ch) # 0
                  /\ tickets[TicketByChannel(ch)].status # "closed"
      ]_vars

(* C35: in every reachable state a ticket's closed_at is set if and only   *)
(* if its status is closed, and its admin_closer_id is set only if its     *)
(* status is closed.                                                       *)
C35_ClosedAtIffClosed ==
    \A i \in TicketIds :
        /\ (tickets[i].closed_at # NULL) <=> (tickets[i].status = "closed")
        /\ (tickets[i].admin_closer_id # NULL) => (tickets[i].status = "closed")

\* one ticket closed by confirm_close, with its closer, and one closed by
\* reconcile, without; or one of them still open
C35_Witness ==
    /\ Len(tickets) = 2
    /\ tickets[1].status = "closed" /\ tickets[1].admin_closer_id # NULL
    /\ tickets[2].status = "closed" /\ tickets[2].admin_closer_id = NULL
    /\ tickets[2].closed_at # NULL

LockWaiting(p) == proc[p].pc \in {"c_wait1", "c_wait2"}

(* C36: the step in which a create_text_channel call ends, with a channel  *)
(* or with an error, passes the guild's lock to the first waiter or        *)
(* leaves it free, and touches no other guild's lock; an on_submit waits   *)
(* only when the lock of its own guild is taken.  With every create call   *)
(* answered, every on_submit that waits for a lock comes to hold it.       *)
C36_LockAlwaysReleased ==
    /\ [][ \A p \in Procs :
             /\ (CreateCallPending(p) /\ proc'[p] # proc[p]) =>
                   LET g == proc[p].g
                       lk == createLock[g]
                   IN  /\ createLock[g].holder = p
                       /\ createLock'[g].holder =
                             IF lk.waiters # <<>> THEN Head(lk.waiters)
                             ELSE IF proc'[p].pc = "c_create2" THEN p
                             ELSE 0
                       /\ \A h \in Guilds \ {g} : createLock'[h] = createLock[h]
             /\ (Started(p) /\ proc'[p].op = "create" /\ LockWaiting(p)') =>
                   createLock[proc'[p].g].holder \notin {0, p}
             /\ (Started(p) /\ proc'[p].op = "create" /\ proc'[p].pc # "done"
                   /\ createLock[proc'[p].g].holder = 0) =>
                   proc'[p].pc = "c_create1"
         ]_vars
    /\ \A p \in Procs :
          LockWaiting(p) ~> (CreateCallPending(p) /\ createLock[proc[p].g].holder = p)

\* the first call of slot 1 ended with an HTTP error: the lock went to slot
\* 2, which had been waiting, and slot 1 waits behind it for its fallback
C36_Witness ==
    /\ proc[1].pc = "c_wait2"
    /\ proc[2].pc = "c_create1"
    /\ proc[1].g = proc[2].g
    /\ createLock[proc[1].g] = [holder |-> 2, waiters |-> <<1>>]

(* C37: a state of the system is a point at which every handler under way  *)
(* is suspended in an await.  In every such state no connection holds      *)
(* sqlite's write lock: each handler has committed what it wrote before    *)
(* it awaited, so no handler's write is refused for another's open         *)
(* transaction.                                                            *)
C37_NoWriteHeldAcrossAwait ==
    /\ dbWriter = 0
    /\ \A p \in Procs : proc[p].pend = <<>>

\* the row reconcile is at carries its UPDATE to closed, not yet committed
ClosedInOwnTransaction(p) ==
    \E k \in 1 .. Len(proc[p].pend) : proc[p].pend[k].id = proc[p].rows[proc[p].idx]

(* C38: a channel goes away only by a deletion task of confirm_close, by   *)
(* reconcile's ch.delete, or by hand.  A deletion task runs only for the   *)
(* channel of a ticket stored as closed; reconcile calls ch.delete only    *)
(* under close_all and delete_channels, for the channel of the row it has  *)
(* just updated to closed.                                                 *)
C38_DeleteOnlyClosed ==
    [][ /\ \A ch \in ChannelIds :
              (\E ok \in BOOLEAN : DeleteLater(ch, ok)) =>
                  /\ TicketByChannel(ch) # 0
                  /\ tickets[TicketByChannel(ch)].status = "closed"
        /\ \A p \in Procs :
              (\E ok \in BOOLEAN : ReconcileDeleted(p, ok)) =>
                  /\ proc[p].closeAll /\ proc[p].delCh
                  /\ ClosedInOwnTransaction(p)
                  /\ \A ch \in ChannelIds :
                        channels'[ch] # channels[ch] =>
                            ch = tickets[proc[p].rows[proc[p].idx]].channel_id
        /\ \A ch \in ChannelIds :
              (channels[ch].exists /\ ~channels'[ch].exists) =>
                  \/ ExternalDelete(ch)
                  \/ DeleteLater(ch, TRUE)
                  \/ \E p \in Procs : ReconcileDeleted(p, TRUE)
      ]_vars

\* reconcile is awaiting ch.delete for a ticket it has updated to closed in
\* its transaction, while a deletion task of a ticket closed by
\* confirm_close is waiting to run
C38_Witness ==
    \E p \in Procs :
        /\ proc[p].pc = "r_delete"
        /\ ClosedInOwnTransaction(p)
        /\ \E ch \in ChannelIds :
              /\ delTasks[ch] > 0
              /\ tickets[TicketByChannel(ch)].status = "closed"

(* C39: the messages table only grows at its end: every step keeps the     *)
(* rows there are, as they are, and every row names a ticket of the        *)
(* tickets table.  A message written by a bot, or arriving in the channel  *)
(* of a ticket stored as closed, leaves the table as it is; a row that     *)
(* on_message adds belongs to the ticket of the channel.                   *)
C39_LogAppendOnly ==
    [][ /\ Len(messages') >= Len(messages)
        /\ SubSeq(messages', 1, Len(messages)) = messages
        /\ \A k \in 1 .. Len(messages') : messages'[k].ticket_id \in 1 .. Len(tickets')
        /\ \A ch \in ChannelIds, u \in Users, bot \in BOOLEAN :
              OnMessage(ch, u, bot, Len(tickets) + LogMaxMessages - Len(messages)) =>
                  IF bot \/ TicketByChannel(ch) = 0
                        \/ tickets[TicketByChannel(ch)].status = "closed"
                  THEN messages' = messages
                  ELSE messages' # messages =>
                          messages'[Len(messages')].ticket_id = TicketByChannel(ch)
      ]_vars

\* a message was logged for a ticket that was closed afterwards and whose
\* channel is still there for messages to arrive in
C39_Witness ==
    \E k \in 1 .. Len(messages) :
        /\ messages[k].discord_message_id # NULL
        /\ tickets[messages[k].ticket_id].status = "closed"
        /\ ChanPresent(channels, tickets[messages[k].ticket_id].channel_id)

(* C40: a request that writes the config, categories or fields tables      *)
(* leaves them as they are, answering with the redirect to the login or    *)
(* with 400, unless the session is signed in and the csrf_token of the     *)
(* form is the session's; the tables change in no other step.  While       *)
(* DASHBOARD_USERNAME or DASHBOARD_PASSWORD is unset no POST of the login  *)
(* form signs the session in.                                              *)
C40_DashboardWritesGuarded ==
    [][ /\ \A tok \in FormTokens :
              WritingRequest(tok) =>
                  IF login_required(session.user) /\ tok = session.csrf_token
                  THEN reply' = "302 guild"
                  ELSE /\ settings' = settings
                       /\ reply' = IF login_required(session.user) THEN "400" ELSE "302 login"
        /\ settings' # settings =>
              /\ login_required(session.user)
              /\ WritingRequest(session.csrf_token)
        /\ (app.up /\ None \in {app.DASHBOARD_USERNAME, app.DASHBOARD_PASSWORD}) =>
              /\ session' = session \/ session'.user = None
              /\ reply' # "302 signed in"
      ]_vars

\* a signed-in session has written the tables, and its latest request, with
\* another token, was answered with 400
C40_Witness ==
    /\ login_required(session.user)
    /\ reply = "400"
    /\ settings.categories # <<>>
    /\ settings.config # {}
=============================================================================
